---- MODULE Spec2Model ----
(***************************************************************************)
(* Upload-session / processing-job state machine of the HL7 generator      *)
(* service (src/actual-code/main_with_fastapi.py).                         *)
(*                                                                         *)
(* The service runs on one asyncio event loop: a coroutine runs without    *)
(* interruption from one await to the next, so every action below is one   *)
(* such segment (an HTTP handler, a resumption of a worker task, a         *)
(* resumption of a stream generator, one pass of the sweeper).             *)
(***************************************************************************)
EXTENDS Integers, Sequences, FiniteSets, TLC

\* ------------------------------------------------------------------ bounds
MaxRows == 2
MaxSelLen == 2
MaxUploads == 1
MaxConfirms == 1
MaxTime == 2
MaxConcJobs == 2
MaxShortRows == 1
MaxStreams == 1
MaxApiSends == 1
MaxMsgLen == 2
MaxHdrLen == 2
MaxSends == 2
MaxPatients == 3
MaxUiPatients == 11
MaxCols == 2
MaxEntries == 2
MaxPreviewRows == 2
MaxBuilds == 3

\* ------------------------------------------------------- program constants
\* expires_at = uploaded_at + timedelta(hours=1); the clock counts hours.
SessionTTL == 1

VARIABLES
    upload_sessions,   \* the dict upload_sessions: id -> session or job entry
    tasks,             \* asyncio tasks running process_confirmed_patients
    streams,           \* open event_generator coroutines of the stream route
    dashboard_stats,   \* the dict dashboard_stats
    now,               \* datetime.now()
    nextId,            \* the next key uuid.uuid4() yields (always fresh)
    response,          \* the HTTP response this step returned (NoResponse
                       \* after a step of a background task)
    mllp_calls,        \* calls that entered the MLLP client send_to_mirth()
    mirth,             \* behaviour of the downstream listener
    client,            \* send_to_mirth() step by step: the call in progress,
                       \* the open sockets and the loop that calls it
    batch,             \* one run of _handle_csv_upload
    operation,         \* one run of process_patients_async
    gen,               \* one record on its way through generate_hl7_message,
                       \* add_zpi_segment_with_uuid and the field validator
    mapper,            \* the calls of map_columns_with_llm made so far
    preview,           \* one run of parse_csv_with_preview and its upload
    builder            \* the messages built so far, by either message builder

callVars == <<operation, gen, mapper, preview, builder>>

vars == <<upload_sessions, tasks, streams, dashboard_stats, now, nextId,
          response, mllp_calls, mirth, client, batch, operation, gen,
          mapper, preview, builder>>

NoResponse == [op |-> "none", code |-> 0]

\* ------------------------------------------------------------- input sets
RowKinds == {"valid", "invalid"}
MirthModes == {"accept", "refuse"}
GenOutcomes == {"success", "validation_failed", "error"}
ErrTexts == {"e1", "e2"}

RECURSIVE SeqsUpTo(_, _)
SeqsUpTo(S, n) ==
    IF n = 0 THEN {<<>>}
    ELSE LET shorter == SeqsUpTo(S, n - 1)
         IN  shorter \cup {Append(s, x) : s \in {t \in shorter : Len(t) = n - 1}, x \in S}

Range(s) == {s[i] : i \in 1..Len(s)}

\* dict helpers: key present, dict.get(key, default), d[key] = v
Has(d, k) == k \in DOMAIN d
Get(d, k, default) == IF k \in DOMAIN d THEN d[k] ELSE default
Put(d, k, v) == [x \in (DOMAIN d) \cup {k} |-> IF x = k THEN v ELSE d[x]]
Del(d, k) == [x \in (DOMAIN d) \ {k} |-> d[x]]

\* A preview session is the entry that carries expires_at; a job entry does not.
IsSession(e) == Has(e, "expires_at")
IsJob(e) == ~IsSession(e)
SessionIds == {id \in DOMAIN upload_sessions : IsSession(upload_sessions[id])}
JobIds == {id \in DOMAIN upload_sessions : IsJob(upload_sessions[id])}

\* Job entries are never removed, so the number of uploads made so far is the
\* number of keys drawn minus the number of job entries.
UploadsSoFar == (nextId - 1) - Cardinality(JobIds)

\* ------------------------------------------------------------------ upload
\* parse_csv_with_preview: one PatientRecord per row that parses, carrying the
\* row's ordinal as index and its own uuid4 (written <<u, ordinal>>: the
\* ordinal-th uuid drawn during upload number u); a row that raises is skipped.
RECURSIVE ParseRows(_, _, _)
ParseRows(rows, i, u) ==
    IF i > Len(rows) THEN <<>>
    ELSE IF rows[i] = "unparsable" THEN ParseRows(rows, i + 1, u)
    ELSE <<[index |-> i - 1, uuid |-> <<u, i - 1>>, validation_status |-> rows[i]]>>
         \o ParseRows(rows, i + 1, u)

NewSessionGenerates(sid, records, t) ==
    [session_id |-> sid, expires_at |-> t + SessionTTL,
     total_records |-> Len(records), parsed_records |-> records,
     status |-> "pending",
     generated_messages |-> [k \in 1..Len(records) |->
                               [row_number |-> records[k].index + 2,
                                patient_uuid |-> records[k].uuid, status |-> "success"]]]

\* lines 1964-1977
NewSession(sid, records, t) ==
    [session_id |-> sid, expires_at |-> t + SessionTTL,
     total_records |-> Len(records), parsed_records |-> records,
     status |-> "pending"]

\* upload_csv_file
Upload(rows) ==
    /\ LET records == ParseRows(rows, 1, nextId)
           sid == nextId
       IN  /\ upload_sessions' = Put(upload_sessions, sid, NewSession(sid, records, now))
           /\ nextId' = nextId + 1
           /\ response' = [op |-> "upload", code |-> 200, session_id |-> sid,
                           total_records |-> Len(records)]
    /\ UNCHANGED <<tasks, streams, dashboard_stats, now, mllp_calls, mirth, client, batch, callVars>>

\* ----------------------------------------------------------------- confirm
ConfirmExpiredReversed(t, session) == t < session.expires_at

\* line 2047: datetime.now() > expires_at
ConfirmExpired(t, session) == t > session.expires_at

RECURSIVE PickInOrder(_, _)
PickInOrder(all_records, indices) ==
    IF indices = <<>> THEN <<>>
    ELSE SelectSeq(all_records, LAMBDA r : r.index = Head(indices))
         \o PickInOrder(all_records, Tail(indices))

SelectInCallerOrder(all_records, selected_indices) ==
    IF selected_indices # <<>> THEN PickInOrder(all_records, selected_indices)
    ELSE all_records

SelectValidOnEmpty(all_records, selected_indices) ==
    IF selected_indices # <<>>
    THEN SelectSeq(all_records, LAMBDA r : r.index \in Range(selected_indices))
    ELSE SelectSeq(all_records, LAMBDA r : r.validation_status = "valid")

\* lines 2055-2058: a list comprehension over all_records, so the result keeps
\* the order of the stored records whatever the order of selected_indices.
SelectRecords(all_records, selected_indices) ==
    IF selected_indices # <<>>
    THEN SelectSeq(all_records, LAMBDA r : r.index \in Range(selected_indices))
    ELSE all_records

\* lines 2066-2079: the job entry, stored under its own fresh id
NewJob(jid, sid, selected, flag, t) ==
    [id |-> jid, session_id |-> sid, status |-> "processing", current_step |-> 0,
     total_patients |-> Len(selected), completed_at |-> <<>>,
     send_to_mirth |-> flag, selected_records |-> selected]

\* lines 2082-2087: asyncio.create_task(process_confirmed_patients(...))
NewTask(selected, flag) ==
    [pc |-> "created", idx |-> 1, selected_records |-> selected,
     send_to_mirth |-> flag]

ConfirmRejectSpawns(sid, code) ==
    /\ response' = [op |-> "confirm", code |-> code, session_id |-> sid]
    /\ tasks' = Put(tasks, sid, [pc |-> "done", idx |-> 1, selected_records |-> <<>>,
                                 send_to_mirth |-> FALSE])
    /\ UNCHANGED nextId

\* lines 2037, 2048, 2061: the HTTPException leaves the handler (re-raised at
\* line 2097) before any job entry or task is created
ConfirmReject(sid, code) ==
    /\ response' = [op |-> "confirm", code |-> code, session_id |-> sid]
    /\ UNCHANGED <<tasks, nextId>>

\* The status code confirm answers with in the current state.
ConfirmCode(sid, selected_indices) ==
    IF sid \notin DOMAIN upload_sessions THEN 404
    ELSE IF IsJob(upload_sessions[sid]) THEN 500
    ELSE IF ConfirmExpired(now, upload_sessions[sid]) THEN 410
    ELSE IF SelectRecords(upload_sessions[sid].parsed_records, selected_indices) = <<>>
    THEN 400
    ELSE 200

Confirm(sid, selected_indices, flag) ==
    /\ IF sid \notin DOMAIN upload_sessions
       THEN /\ ConfirmReject(sid, 404)
            /\ UNCHANGED upload_sessions
       ELSE IF IsJob(upload_sessions[sid])
       THEN \* UploadSession(**dict) raises on a job entry: caught at line 2099
            /\ ConfirmReject(sid, 500)
            /\ UNCHANGED upload_sessions
       ELSE IF ConfirmExpired(now, upload_sessions[sid])
       THEN /\ upload_sessions' = Del(upload_sessions, sid)
            /\ ConfirmReject(sid, 410)
       ELSE LET selected == SelectRecords(upload_sessions[sid].parsed_records,
                                          selected_indices)
                jid == nextId
            IN  IF selected = <<>>
                THEN /\ ConfirmReject(sid, 400)
                     /\ UNCHANGED upload_sessions
                ELSE /\ upload_sessions' =
                            Put(upload_sessions, jid, NewJob(jid, sid, selected, flag, now))
                     /\ tasks' = Put(tasks, jid, NewTask(selected, flag))
                     /\ nextId' = nextId + 1
                     /\ response' = [op |-> "confirm", code |-> 200,
                                     session_id |-> sid, upload_id |-> jid, status |-> "processing",
                                     total_selected |-> Len(selected)]
    /\ UNCHANGED <<streams, dashboard_stats, now, mllp_calls, mirth, client, batch, callVars>>

\* ------------------------------------------------------------------- sweep
SweepExpiredInclusive(t, entry) == IsSession(entry) /\ t >= entry.expires_at

\* line 1574: now > expires_at, for the entries that carry expires_at
SweepExpired(t, entry) == IsSession(entry) /\ t > entry.expires_at

\* cleanup_expired_sessions: one pass of the loop body
Sweep ==
    /\ upload_sessions' =
           [id \in {i \in DOMAIN upload_sessions : ~SweepExpired(now, upload_sessions[i])}
               |-> upload_sessions[id]]
    /\ UNCHANGED <<tasks, streams, dashboard_stats, now, nextId,
                   mllp_calls, mirth, client, batch, callVars>>
    /\ response' = NoResponse

\* ------------------------------------------------------------------ worker
\* lines 1204-1212 / 1225-1232: the outcome recorded for one record
GenMessage(rec, outcome) ==
    [row_number |-> rec.index + 2, patient_uuid |-> rec.uuid, status |-> outcome]

GenOneDropsError(st, rec, outcome) ==
    IF outcome = "error" THEN st
    ELSE [st EXCEPT !.job.generated_messages = Append(@, GenMessage(rec, outcome)),
                    !.stats.hl7_messages_generated = @ + 1]

\* lines 1196-1235: one iteration of the generation loop on
\* st = [job, stats, calls]
GenOne(st, rec, outcome) ==
    [st EXCEPT !.job.generated_messages = Append(@, GenMessage(rec, outcome)),
               !.stats.hl7_messages_generated = IF outcome = "error" THEN @ ELSE @ + 1]

\* k consecutive iterations that end in the except branch (line 1224): that
\* branch does not await, so the loop goes on in the same segment.
RECURSIVE GenErrors(_, _, _, _)
GenErrors(st, recs, i, k) ==
    IF k = 0 THEN st
    ELSE GenErrors(GenOne(st, recs[i], "error"), recs, i + 1, k - 1)

\* line 1254: inside process_confirmed_patients the name send_to_mirth is the
\* coroutine's own bool parameter (line 1136), not the module-level MLLP
\* client, so the call raises TypeError before any socket is opened.
SendAttempt(msg, mode) ==
    [raised |-> TRUE, error |-> "'bool' object is not callable", entered |-> FALSE]

\* The MLLP client's log: the attempt is listed when it entered the client
LogAttempt(calls, j, k, a) ==
    IF a.entered THEN Append(calls, [caller |-> "job", job |-> j, message |-> k])
    ELSE calls

RecordSendDropsFailure(st, k, a) ==
    [st EXCEPT !.job.generated_messages[k] =
                   Put(Put(@, "mirth_sent", FALSE), "mirth_error", "error")]

RecordSendCountsTwice(st, k, a) ==
    [st EXCEPT !.job.generated_messages[k] =
                   Put(Put(@, "mirth_sent", FALSE), "mirth_error", "error"),
               !.job.mirth_failed = @ + 2,
               !.stats.failed_sends = @ + 2]

\* lines 1255-1280: what the job records for the attempt on message k
RecordSend(st, k, a) ==
    LET m == st.job.generated_messages[k]
        logged == [st EXCEPT !.calls = LogAttempt(@, st.job.id, k, a)]
    IN  IF a.raised
        THEN [logged EXCEPT
                !.job.generated_messages[k] =
                    Put(Put(m, "mirth_sent", FALSE), "mirth_error", a.error),
                !.job.mirth_failed = @ + 1,
                !.stats.failed_sends = @ + 1]
        ELSE IF a.success
        THEN [logged EXCEPT
                !.job.generated_messages[k] =
                    Put(Put(m, "mirth_sent", TRUE), "mirth_ack", a.ack),
                !.job.mirth_successful = @ + 1,
                !.stats.successful_sends = @ + 1]
        ELSE [logged EXCEPT
                !.job.generated_messages[k] =
                    Put(Put(m, "mirth_sent", FALSE), "mirth_ack", a.ack),
                !.job.mirth_failed = @ + 1,
                !.stats.failed_sends = @ + 1]

\* lines 1248-1280: the transmission loop from message k on.  No attempt
\* returns (SendAttempt), so the await of line 1273 is never reached and the
\* loop runs to its end in one segment.
RECURSIVE TransmitFrom(_, _, _)
TransmitFrom(st, k, mode) ==
    IF k > Len(st.job.generated_messages) THEN st
    ELSE IF st.job.generated_messages[k].status = "success"
    THEN TransmitFrom(RecordSend(st, k, SendAttempt(st.job.generated_messages[k], mode)),
                      k + 1, mode)
    ELSE TransmitFrom(st, k + 1, mode)

\* lines 1239-1242 / 1286-1289
BeginStep3(st) ==
    [st EXCEPT !.job = Put(Put([st.job EXCEPT !.current_step = 3],
                               "mirth_successful", 0), "mirth_failed", 0)]

CompleteOverwritesTotal(st, n, t) ==
    [st EXCEPT !.job.current_step = 4, !.job.status = "completed",
               !.job.completed_at = <<t>>,
               !.stats.total_processed = n]

CompleteKeepsProcessing(st, n, t) ==
    [st EXCEPT !.job.current_step = 4, !.job.completed_at = <<t>>,
               !.stats.total_processed = @ + n]

\* lines 1294-1300
Complete(st, n, t) ==
    [st EXCEPT !.job.current_step = 4, !.job.status = "completed",
               !.job.completed_at = <<t>>,
               !.stats.total_processed = @ + n]

FailRewindsStep(job, e) ==
    Put([job EXCEPT !.status = "error", !.current_step = 0], "error", e)

FailResets(job, e) == Put([job EXCEPT !.status = "pending"], "error", e)

FailLosesText(job, e) == Put([job EXCEPT !.status = "error"], "error", "Unknown error")

\* lines 1314-1317: the handler of the outer try
Fail(job, e) == Put([job EXCEPT !.status = "error"], "error", e)

\* lines 1160-1167: the task starts and waits at the first sleep
WorkerStart(j) ==
    /\ j \in DOMAIN tasks
    /\ tasks[j].pc = "created"
    /\ upload_sessions' = [upload_sessions EXCEPT ![j].current_step = 1]
    /\ tasks' = [tasks EXCEPT ![j].pc = "sleep_start"]
    /\ UNCHANGED <<streams, dashboard_stats, now, nextId, mllp_calls, mirth, client, batch, callVars>>
    /\ response' = NoResponse

\* lines 1170-1300, from a resumption to the next await: k records whose
\* generation raises, then either one record whose generation returns
\* (recorded, then the sleep of line 1222) or the end of the list, where
\* the segment runs on into step 3 and, with transmission on, step 4.
WorkerGenerate(j) ==
    /\ j \in DOMAIN tasks
    /\ tasks[j].pc \in {"sleep_start", "sleep_gen"}
    /\ LET t == tasks[j]
           recs == t.selected_records
           n == Len(recs)
           job0 == IF t.pc = "sleep_start"
                   THEN Put([upload_sessions[j] EXCEPT !.current_step = 2],
                            "generated_messages", <<>>)
                   ELSE upload_sessions[j]
           st0 == [job |-> job0, stats |-> dashboard_stats, calls |-> mllp_calls]
       IN  \E k \in 0..(n + 1 - t.idx) :
             LET st1 == GenErrors(st0, recs, t.idx, k)
                 i == t.idx + k
             IN  IF i <= n
                 THEN \E o \in {"success", "validation_failed"} :
                        LET st2 == GenOne(st1, recs[i], o)
                        IN  /\ upload_sessions' = [upload_sessions EXCEPT ![j] = st2.job]
                            /\ dashboard_stats' = st2.stats
                            /\ mllp_calls' = st2.calls
                            /\ tasks' = [tasks EXCEPT ![j].pc = "sleep_gen",
                                                      ![j].idx = i + 1]
                 ELSE IF t.send_to_mirth
                 THEN LET st3 == Complete(TransmitFrom(BeginStep3(st1), 1, mirth), n, now)
                      IN  /\ upload_sessions' = [upload_sessions EXCEPT ![j] = st3.job]
                          /\ dashboard_stats' = st3.stats
                          /\ mllp_calls' = st3.calls
                          /\ tasks' = [tasks EXCEPT ![j].pc = "done", ![j].idx = i]
                 ELSE LET st3 == BeginStep3(st1)
                      IN  /\ upload_sessions' = [upload_sessions EXCEPT ![j] = st3.job]
                          /\ dashboard_stats' = st3.stats
                          /\ mllp_calls' = st3.calls
                          /\ tasks' = [tasks EXCEPT ![j].pc = "sleep_skip", ![j].idx = i]
    /\ UNCHANGED <<streams, now, nextId, mirth, client, batch, callVars>>
    /\ response' = NoResponse

\* lines 1291-1300: after the sleep of the skipped transmission step
WorkerFinish(j) ==
    /\ j \in DOMAIN tasks
    /\ tasks[j].pc = "sleep_skip"
    /\ LET st == Complete([job |-> upload_sessions[j], stats |-> dashboard_stats,
                           calls |-> mllp_calls],
                          Len(tasks[j].selected_records), now)
       IN  /\ upload_sessions' = [upload_sessions EXCEPT ![j] = st.job]
           /\ dashboard_stats' = st.stats
    /\ tasks' = [tasks EXCEPT ![j].pc = "done"]
    /\ UNCHANGED <<streams, now, nextId, mllp_calls, mirth, client, batch, callVars>>
    /\ response' = NoResponse

\* An exception raised in the outer try outside the two inner try blocks, as
\* the task resumes: lines 1314-1317 record it and the task ends.
JobFault(j, e) ==
    /\ j \in DOMAIN tasks
    /\ tasks[j].pc \in {"created", "sleep_start", "sleep_gen", "sleep_skip"}
    /\ upload_sessions' = [upload_sessions EXCEPT ![j] = Fail(@, e)]
    /\ tasks' = [tasks EXCEPT ![j] = Put(Put(@, "pc", "done"), "exc", e)]
    /\ UNCHANGED <<streams, dashboard_stats, now, nextId, mllp_calls, mirth, client, batch, callVars>>
    /\ response' = NoResponse

\* ----------------------------------------------------------------- readers
CountStatus(messages, st) ==
    Cardinality({k \in 1..Len(messages) : messages[k].status = st})

\* get_upload_status: a preview session has no "id" key, so the handler raises
GetStatus(id) ==
    /\ response' =
         IF id \notin DOMAIN upload_sessions THEN [op |-> "status", code |-> 404]
         ELSE IF IsSession(upload_sessions[id]) THEN [op |-> "status", code |-> 500]
         ELSE LET session == upload_sessions[id]
              IN  [op |-> "status", code |-> 200, upload_id |-> session.id,
                   status |-> session.status,
                   current_step |-> Get(session, "current_step", 0),
                   total_patients |-> Get(session, "total_patients", 0),
                   completed_at |-> Get(session, "completed_at", <<>>)]
    /\ UNCHANGED <<upload_sessions, tasks, streams, dashboard_stats, now, nextId,
                   mllp_calls, mirth, client, batch, callVars>>

\* get_upload_results
GetResults(id) ==
    /\ response' =
         IF id \notin DOMAIN upload_sessions THEN [op |-> "results", code |-> 404]
         ELSE IF IsSession(upload_sessions[id]) THEN [op |-> "results", code |-> 500]
         ELSE LET session == upload_sessions[id]
                  messages == Get(session, "generated_messages", <<>>)
                  successful == CountStatus(messages, "success")
              IN  [op |-> "results", code |-> 200, upload_id |-> session.id,
                   status |-> session.status,
                   current_step |-> Get(session, "current_step", 0),
                   total_patients |-> Get(session, "total_patients", 0),
                   successful |-> successful,
                   failed |-> Len(messages) - successful,
                   mirth_successful |-> Get(session, "mirth_successful", 0),
                   mirth_failed |-> Get(session, "mirth_failed", 0),
                   messages |-> messages,
                   error |-> Get(session, "error", "None")]
    /\ UNCHANGED <<upload_sessions, tasks, streams, dashboard_stats, now, nextId,
                   mllp_calls, mirth, client, batch, callVars>>

\* ------------------------------------------------------------------ stream
\* stream_upload_progress: 404 for an unknown id, else the response starts
\* and the generator is created (it runs at its first resumption).
StreamOpen(r, id) ==
    /\ r \notin DOMAIN streams
    /\ IF id \notin DOMAIN upload_sessions
       THEN /\ response' = [op |-> "stream", code |-> 404]
            /\ UNCHANGED streams
       ELSE /\ response' = [op |-> "stream", code |-> 200]
            /\ streams' = Put(streams, r, [upload_id |-> id, pc |-> "created",
                                           events |-> 0, final |-> <<>>])
    /\ UNCHANGED <<upload_sessions, tasks, dashboard_stats, now, nextId,
                   mllp_calls, mirth, client, batch, callVars>>

\* lines 2229-2242: the event sent after the loop
FinalEvent(session, id) ==
    LET base == [current_step |-> Get(session, "current_step", 6),
                 total_patients |-> Get(session, "total_patients", 0),
                 status |-> session.status, upload_id |-> id]
        successful == CountStatus(Get(session, "generated_messages", <<>>), "success")
        done == IF session.status = "completed"
                THEN Put(Put(base, "successful", successful),
                         "failed", Get(session, "total_patients", 0) - successful)
                ELSE base
    IN  IF session.status = "error"
        THEN Put(done, "error", Get(session, "error", "Unknown error"))
        ELSE done

\* event_generator, one resumption: line 2201 at the first one (KeyError when
\* the entry was removed in between), then the loop test of line 2204: a
\* progress event and the sleep, or the final event and the end.  Only a
\* preview session can be removed and its status is never "processing", so a
\* generator that sleeps always reads a stored job entry.
StreamNext(r) ==
    /\ r \in DOMAIN streams
    /\ streams[r].pc \in {"created", "sleep"}
    /\ LET id == streams[r].upload_id
       IN  IF id \notin DOMAIN upload_sessions
           THEN streams' = [streams EXCEPT ![r].pc = "crashed"]
           ELSE IF upload_sessions[id].status = "processing"
           THEN streams' = [streams EXCEPT ![r].pc = "sleep", ![r].events = 1]
           ELSE streams' = [streams EXCEPT ![r].pc = "ended",
                               ![r].final = Append(@, FinalEvent(upload_sessions[id], id))]
    /\ response' = NoResponse
    /\ UNCHANGED <<upload_sessions, tasks, dashboard_stats, now, nextId,
                   mllp_calls, mirth, client, batch, callVars>>

\* ------------------------------------------------------------ MLLP client
\* send_to_mirth (the module-level function): what it returns against a
\* listener that accepts every message, or refuses every connection.
MllpSend(mode) ==
    IF mode = "accept" THEN [success |-> TRUE, ack |-> "MSA|AA"]
    ELSE [success |-> FALSE, ack |-> "Connection refused!"]

\* send_hl7_to_mirth, the route /api/send-to-mirth
ApiSend ==
    /\ Len(mllp_calls) < MaxApiSends
    /\ mllp_calls' = Append(mllp_calls, [caller |-> "api", result |-> MllpSend(mirth)])
    /\ response' = [op |-> "send", code |-> 200, success |-> MllpSend(mirth).success]
    /\ UNCHANGED <<upload_sessions, tasks, streams, dashboard_stats, now, nextId, mirth, client, batch, callVars>>

\* ----------------------------------------------- MLLP client, step by step
\* Texts and byte strings are sequences of code points and of byte values:
\* 10 is \n, 13 is \r, 11 is 0x0b, 28 is 0x1c, 80 is P, 233 is a character
\* outside ASCII; 65, 67, 69, 82 are A, C, E, R and 255 is a byte that is
\* not valid UTF-8.
MsgChars == {10, 11, 28, 80, 233}
AckChars == {65, 67, 255}
AckCodes == {<<65, 65>>, <<65, 69>>, <<65, 82>>, <<67, 65>>}

\* lines 960-961
START_BLOCK == <<11>>
END_BLOCK == <<28, 13>>

\* str.encode("utf-8"), for code points below 2048
Utf8Char(c) == IF c < 128 THEN <<c>> ELSE <<192 + (c \div 64), 128 + (c % 64)>>

RECURSIVE Encode(_)
Encode(text) ==
    IF text = <<>> THEN <<>> ELSE Utf8Char(Head(text)) \o Encode(Tail(text))

\* hl7_message.replace("\n", "\r")
ReplaceNewlines(text) ==
    [i \in 1..Len(text) |-> IF text[i] = 10 THEN 13 ELSE text[i]]

MllpFrameRaw(hl7_message) == START_BLOCK \o Encode(hl7_message) \o END_BLOCK

\* lines 962-963
MllpFrame(hl7_message) ==
    START_BLOCK \o Encode(ReplaceNewlines(hl7_message)) \o END_BLOCK

\* bytes.decode("utf-8", errors="ignore") on the responses drawn here, which
\* hold ASCII bytes and 0xff: the invalid byte is dropped
Decode(bytes) == SelectSeq(bytes, LAMBDA b : b < 128)

StripChars == {11, 28, 13}

RECURSIVE LStrip(_)
LStrip(text) ==
    IF text # <<>> /\ Head(text) \in StripChars THEN LStrip(Tail(text)) ELSE text

RECURSIVE RStrip(_)
RStrip(text) ==
    IF text # <<>> /\ text[Len(text)] \in StripChars
    THEN RStrip(SubSeq(text, 1, Len(text) - 1))
    ELSE text

\* str.strip("\x0b\x1c\x0d")
Strip(text) == RStrip(LStrip(text))

\* sub in text
Contains(text, sub) ==
    \E i \in 1..(Len(text) - Len(sub) + 1) : SubSeq(text, i, i + Len(sub) - 1) = sub

\* What send_to_mirth returns: (success, text).  The text is written ack when
\* it is the decoded ACK and message when it is one of the fixed texts.
NoResult == [success |-> FALSE, ack |-> <<>>, message |-> ""]

\* lines 983-1001: the classification of what recv returned
Classify(recv) ==
    IF recv # <<>>
    THEN LET ack_message == Strip(Decode(recv))
         IN  IF Contains(ack_message, <<65, 65>>) \/ Contains(ack_message, <<67, 65>>)
             THEN [outcome |-> "accepted",
                   result |-> [success |-> TRUE, ack |-> ack_message, message |-> ""]]
             ELSE [outcome |-> "rejected",
                   result |-> [success |-> FALSE, ack |-> ack_message, message |-> ""]]
    ELSE [outcome |-> "no_ack",
          result |-> [success |-> TRUE, ack |-> <<>>,
                      message |-> "Message sent successfully (no ACK received)"]]

\* lines 1003-1031: the three except clauses
Failure(kind) ==
    [outcome |-> kind,
     result |-> [success |-> FALSE, ack |-> <<>>,
                 message |-> IF kind = "timeout" THEN "Connection timeout!"
                             ELSE IF kind = "refused" THEN "Connection refused!"
                             ELSE "Error sending to Mirth"]]

\* What the listener may answer: nothing, an empty frame, or a framed ACK
\* made of some header text, \r, MSA| and an acknowledgment code.
AckText(header, code) == header \o <<13, 77, 83, 65, 124>> \o code

Responses ==
    {<<>>, START_BLOCK \o END_BLOCK}
    \cup {START_BLOCK \o AckText(h, c) \o END_BLOCK :
             h \in SeqsUpTo(AckChars, MaxHdrLen), c \in AckCodes}

NoCall ==
    [pc |-> "idle", caller |-> "none", hl7_message |-> <<>>, mllp_message |-> <<>>,
     sock |-> 0, connects |-> 0, transmissions |-> 0, wire |-> <<>>,
     response |-> <<>>, outcome |-> "none", result |-> NoResult]

NoLoop == [active |-> FALSE, n |-> 0, log |-> <<>>,
           mirth_successful |-> 0, mirth_failed |-> 0]

appVars == <<upload_sessions, tasks, streams, dashboard_stats, now, nextId,
             response, mllp_calls, mirth>>

\* process_csv_with_progress, step 5 with sending enabled: the loop over n
\* generated messages whose status is success starts
LegacyStep5Begin(n) ==
    /\ ~client.loop.active
    /\ client.cur.pc = "idle"
    /\ client.calls + n <= MaxSends
    /\ client' = [client EXCEPT !.loop = [NoLoop EXCEPT !.active = TRUE, !.n = n]]
    /\ UNCHANGED <<appVars, batch, callVars>>

\* A caller enters send_to_mirth (line 1705 for the route, line 1512 for the
\* loop): lines 938-966 build the frame.  The function is synchronous, so one
\* call is in progress at a time.
SendBegin(caller, hl7_message) ==
    /\ client.cur.pc = "idle"
    /\ client.calls < MaxSends
    /\ IF caller = "job"
       THEN client.loop.active /\ Len(client.loop.log) < client.loop.n
       ELSE ~client.loop.active
    /\ client' = [client EXCEPT
                    !.calls = @ + 1,
                    !.cur = [NoCall EXCEPT !.pc = "framed", !.caller = caller,
                                           !.hl7_message = hl7_message,
                                           !.mllp_message = MllpFrame(hl7_message)]]
    /\ UNCHANGED <<appVars, batch, callVars>>

\* line 968: socket.socket(); when it raises, sock is still None
SockCreate(ok) ==
    /\ client.cur.pc = "framed"
    /\ client' =
         IF ok
         THEN [client EXCEPT !.cur.pc = "created", !.cur.sock = client.nextSock,
                             !.open = @ \cup {client.nextSock},
                             !.nextSock = @ + 1]
         ELSE [client EXCEPT !.cur.pc = "classified",
                             !.cur.outcome = Failure("error").outcome,
                             !.cur.result = Failure("error").result]
    /\ UNCHANGED <<appVars, batch, callVars>>

SockConnectRetries(res) ==
    /\ client.cur.pc = "created"
    /\ client' =
         IF res = "ok"
         THEN [client EXCEPT !.cur.pc = "connected", !.cur.connects = @ + 1]
         ELSE IF res = "timeout"
         THEN [client EXCEPT !.cur.connects = @ + 1]
         ELSE [client EXCEPT !.cur.pc = "classified", !.cur.connects = @ + 1,
                             !.cur.outcome = Failure(res).outcome,
                             !.cur.result = Failure(res).result]
    /\ UNCHANGED <<appVars, batch, callVars>>

\* line 973: sock.connect
SockConnect(res) ==
    /\ client.cur.pc = "created"
    /\ client' =
         IF res = "ok"
         THEN [client EXCEPT !.cur.pc = "connected", !.cur.connects = @ + 1]
         ELSE [client EXCEPT !.cur.pc = "classified", !.cur.connects = @ + 1,
                             !.cur.outcome = Failure(res).outcome,
                             !.cur.result = Failure(res).result]
    /\ UNCHANGED <<appVars, batch, callVars>>

SockSendAllUnconnected(res, sent) ==
    /\ client.cur.pc \in {"created", "connected"}
    /\ client' =
         IF res = "ok"
         THEN [client EXCEPT !.cur.pc = "sent", !.cur.transmissions = @ + 1,
                             !.cur.wire = client.cur.mllp_message]
         ELSE [client EXCEPT !.cur.pc = "classified", !.cur.transmissions = @ + 1,
                             !.cur.wire = SubSeq(client.cur.mllp_message, 1, sent),
                             !.cur.outcome = Failure(res).outcome,
                             !.cur.result = Failure(res).result]
    /\ UNCHANGED <<appVars, batch, callVars>>

\* line 977: sock.sendall; a call that fails has put sent bytes of the frame
\* on the wire
SockSendAll(res, sent) ==
    /\ client.cur.pc = "connected"
    /\ client' =
         IF res = "ok"
         THEN [client EXCEPT !.cur.pc = "sent", !.cur.transmissions = @ + 1,
                             !.cur.wire = client.cur.mllp_message]
         ELSE [client EXCEPT !.cur.pc = "classified", !.cur.transmissions = @ + 1,
                             !.cur.wire = SubSeq(client.cur.mllp_message, 1, sent),
                             !.cur.outcome = Failure(res).outcome,
                             !.cur.result = Failure(res).result]
    /\ UNCHANGED <<appVars, batch, callVars>>

\* lines 981-1001: sock.recv returns bytes, which are classified
SockRecv(bytes) ==
    /\ client.cur.pc = "sent"
    /\ client' = [client EXCEPT !.cur.pc = "classified", !.cur.response = bytes,
                                !.cur.outcome = Classify(bytes).outcome,
                                !.cur.result = Classify(bytes).result]
    /\ UNCHANGED <<appVars, batch, callVars>>

\* line 981: sock.recv raises
SockRecvFails(res) ==
    /\ client.cur.pc = "sent"
    /\ client' = [client EXCEPT !.cur.pc = "classified",
                                !.cur.outcome = Failure(res).outcome,
                                !.cur.result = Failure(res).result]
    /\ UNCHANGED <<appVars, batch, callVars>>

SockCloseLeaks ==
    /\ client.cur.pc = "classified"
    /\ client' = [client EXCEPT
                    !.cur.pc = "closed",
                    !.open = IF client.cur.outcome \in {"accepted", "rejected", "no_ack"}
                             THEN @ \ {client.cur.sock} ELSE @]
    /\ UNCHANGED <<appVars, batch, callVars>>

\* lines 1033-1039: the finally clause
SockClose ==
    /\ client.cur.pc = "classified"
    /\ client' = [client EXCEPT !.cur.pc = "closed",
                                !.open = @ \ {client.cur.sock}]
    /\ UNCHANGED <<appVars, batch, callVars>>

\* lines 1513-1525: what the loop records for the call that returned
LoopRecord(loop, cur) ==
    [loop EXCEPT
       !.log = Append(@, [connects |-> cur.connects,
                          transmissions |-> cur.transmissions,
                          mirth_sent |-> cur.result.success]),
       !.mirth_successful = IF cur.result.success THEN @ + 1 ELSE @,
       !.mirth_failed = IF cur.result.success THEN @ ELSE @ + 1]

\* send_to_mirth returns to its caller
SendReturn ==
    /\ client.cur.pc = "closed"
    /\ client' = [client EXCEPT
                    !.cur = NoCall,
                    !.socks = Append(@, client.cur.sock),
                    !.loop = IF client.cur.caller = "job"
                             THEN LoopRecord(@, client.cur) ELSE @]
    /\ UNCHANGED <<appVars, batch, callVars>>

\* lines 1509-1534: the loop has gone through its messages
LegacyStep5End ==
    /\ client.loop.active
    /\ client.cur.pc = "idle"
    /\ Len(client.loop.log) = client.loop.n
    /\ client' = [client EXCEPT !.loop.active = FALSE]
    /\ UNCHANGED <<appVars, batch, callVars>>

\* ------------------------------------------------- OperationResult of a batch
AckStatuses == {"AA", "AE", "AR", "TIMEOUT", "ERROR", "PARSE_ERROR"}

NoOperationResult ==
    [status |-> "none", records_affected |-> 0, records_succeeded |-> 0,
     records_failed |-> 0]

CsvStatusNoPartial(succeeded, failed) ==
    IF failed = 0 THEN "success" ELSE "failed"

\* use_cases.py lines 486-494
CsvStatus(succeeded, failed) ==
    IF failed = 0 THEN "success"
    ELSE IF succeeded = 0 THEN "failed"
    ELSE "partial_success"

\* main_ui_compatible.py line 677, process_patients_async
UiStatus(successful, failed) ==
    IF failed = 0 THEN "success"
    ELSE IF successful > 0 THEN "partial_success"
    ELSE "failed"

\* _handle_csv_upload is called with n patients (lines 436-444)
CsvBegin(n) ==
    /\ batch.pc = "idle"
    /\ batch' = [batch EXCEPT !.pc = "loop", !.total_count = n]
    /\ UNCHANGED <<appVars, client, callVars>>

\* lines 446-485, one iteration: the message's ack_status after send_message,
\* or "raise" when the iteration raises
CsvRecord(ack_status) ==
    /\ batch.pc = "loop"
    /\ Len(batch.acks) < batch.total_count
    /\ batch' = [batch EXCEPT
                   !.acks = Append(@, ack_status),
                   !.succeeded = IF ack_status = "AA" THEN @ + 1 ELSE @,
                   !.failed = IF ack_status = "AA" THEN @ ELSE @ + 1]
    /\ UNCHANGED <<appVars, client, callVars>>

\* lines 487-531
CsvReturn ==
    /\ batch.pc = "loop"
    /\ Len(batch.acks) = batch.total_count
    /\ batch' = [batch EXCEPT
                   !.pc = "returned",
                   !.result = [status |-> CsvStatus(batch.succeeded, batch.failed),
                               records_affected |-> batch.total_count,
                               records_succeeded |-> batch.succeeded,
                               records_failed |-> batch.failed]]
    /\ UNCHANGED <<appVars, client, callVars>>

\* lines 533-544: the handler of the outer try
CsvFault ==
    /\ batch.pc = "loop"
    /\ batch' = [batch EXCEPT
                   !.pc = "returned",
                   !.faulted = TRUE,
                   !.result = [status |-> "failed",
                               records_affected |-> batch.total_count,
                               records_succeeded |-> 0,
                               records_failed |-> batch.total_count]]
    /\ UNCHANGED <<appVars, client, callVars>>

\* ------------------------------------------------ text as a sequence of tokens
\* A text is a sequence of tokens.  A token is a maximal run of ASCII letters,
\* a maximal run of digits, or one other character, so that a regular
\* expression over character classes reads whole tokens.
DigitWords == {"1990", "01", "04", "15", "12", "000001", "20240101120000"}
SpaceChars == {" ", "\n", "\r"}
OtherChars == {":", ",", "-", "_", "/", "|", "^", "'", "#", ".", "^~\\&"}

IsSpace(t) == t \in SpaceChars
IsDigits(t) == t \in DigitWords
IsAlpha(t) == t \notin DigitWords \cup SpaceChars \cup OtherChars

\* str.upper() on the letters of the inputs
Upper(t) ==
    CASE t = "adt" -> "ADT"
      [] t = "a" -> "A"
      [] OTHER -> t

\* the first letter of a run of letters, upper-cased
Initial(t) ==
    CASE t \in {"Male", "MRN", "Main", "M", "male", "m"} -> "M"
      [] t \in {"Female", "F", "female", "f"} -> "F"
      [] t \in {"Unknown", "UUID", "U", "unknown", "u"} -> "U"
      [] OTHER -> "?"

Concat(texts) ==
    LET RECURSIVE Cat(_)
        Cat(k) == IF k > Len(texts) THEN <<>> ELSE texts[k] \o Cat(k + 1)
    IN  Cat(1)

\* sep.join(parts)
Join(parts, sep) ==
    LET RECURSIVE J(_)
        J(k) == IF k > Len(parts) THEN <<>>
                ELSE IF k = Len(parts) THEN parts[k]
                ELSE parts[k] \o <<sep>> \o J(k + 1)
    IN  J(1)

\* text.split(sep)
Split(text, sep) ==
    LET RECURSIVE S(_, _)
        S(k, cur) ==
            IF k > Len(text) THEN <<cur>>
            ELSE IF text[k] = sep THEN <<cur>> \o S(k + 1, <<>>)
            ELSE S(k + 1, Append(cur, text[k]))
    IN  S(1, <<>>)

\* text.replace(old, new) for single characters
Replace(text, old, new) ==
    [k \in 1..Len(text) |-> IF text[k] = old THEN new ELSE text[k]]

\* text.replace(old, "")
Remove(text, old) == SelectSeq(text, LAMBDA t : t # old)

StartsWith(text, prefix) ==
    /\ Len(text) >= Len(prefix)
    /\ SubSeq(text, 1, Len(prefix)) = prefix

\* text.strip()
StripText(text) ==
    LET idx == {k \in 1..Len(text) : ~IsSpace(text[k])}
    IN  IF idx = {} THEN <<>>
        ELSE SubSeq(text, CHOOSE k \in idx : \A m \in idx : k <= m,
                          CHOOSE k \in idx : \A m \in idx : k >= m)

\* the end (exclusive) of the longest run of tokens of a class from p
RunEnd(text, p, InClass(_)) ==
    LET stops == {q \in p..Len(text) : ~InClass(text[q])}
    IN  IF stops = {} THEN Len(text) + 1
        ELSE CHOOSE q \in stops : \A m \in stops : q <= m

\* the positions just after each occurrence of a label, in text order
After(text, label) ==
    {p + Len(label) : p \in {q \in 1..(Len(text) - Len(label) + 1) :
                                SubSeq(text, q, q + Len(label) - 1) = label}}

\* [:\s]* from p
SkipColonSpace(text, p) == RunEnd(text, p, LAMBDA t : t = ":" \/ IsSpace(t))

\* re.search(label [:\s]* group): the capture at the first occurrence of the
\* label at which the group matches, or <<>> when there is none.
\* Group(text, q) is the end (exclusive) of the group's match at q, or q
\* itself when the group does not match there.
Search(text, label, Group(_, _)) ==
    LET hits == {p \in After(text, label) :
                    Group(text, SkipColonSpace(text, p)) > SkipColonSpace(text, p)}
    IN  IF hits = {} THEN [found |-> FALSE, from |-> 1, to |-> 1]
        ELSE LET p == CHOOSE h \in hits : \A m \in hits : h <= m
                 q == SkipColonSpace(text, p)
             IN  [found |-> TRUE, from |-> q, to |-> Group(text, q)]

Tok(text, p) == IF p \in 1..Len(text) THEN text[p] ELSE "\n"

\* --------------------------------------------------- HL7 message generation
\* the values a record of an upload can hold, as texts
LastNames == {<<"Doe">>, <<>>, <<"O", "'", "Brien">>}
FirstNames == {<<"John">>, <<>>}
BirthDates == {<<"1990", "-", "01", "-", "15">>, <<>>, <<"01", "/", "15", "/", "1990">>}
Genders == {<<"Male">>, <<"Female">>, <<"Other">>, <<"Unknown">>, <<>>}
Mrns == {<<"MRN", "000001">>, <<>>, <<"#", "12">>}
Addresses == {<<>>, <<"12", " ", "Main", " ", "St">>}
Uuids == {<<"aaaa", "-", "01">>, <<"bbbb", "-", "01">>}
TriggerEvents == {<<"ADT", "-", "A", "01">>, <<"ADT", "-", "A", "04">>, <<"adt", "-", "a", "04">>}

PatientRecords ==
    [firstName : FirstNames, lastName : LastNames, dateOfBirth : BirthDates,
     gender : Genders, mrn : Mrns, address : Addresses, uuid : Uuids]

\* process_confirmed_patients, lines 1179-1193: the command of one record
Command(patient, trigger_event) ==
    Concat(<<
      <<"\n", "Trigger", " ", "Event", ":", " ">>, trigger_event,
      <<"\n", "Patient", " ", "ID", ":", " ">>, patient.mrn,
      <<"\n", "Patient", " ", "UUID", ":", " ">>, patient.uuid,
      <<"\n", "Patient", " ", "Name", ":", " ">>, patient.lastName, <<" ">>, patient.firstName,
      <<"\n", "Date", " ", "of", " ", "Birth", ":", " ">>, patient.dateOfBirth,
      <<"\n", "Gender", ":", " ">>, patient.gender,
      <<"\n", "Address", ":", " ">>, patient.address,
      <<"\n", "City", ":", " ", "\n", "State", ":", " ", "\n", "Zip", ":", " ",
        "\n", "Phone", ":", " ", "\n", "Email", ":", " ", "\n">>,
      <<"Create", " ", "an", " ">>, trigger_event,
      <<" ", "message", " ", "for", " ", "patient", " ">>, patient.firstName,
      <<" ">>, patient.lastName, <<",", " ", "ID", " ">>, patient.mrn,
      <<",", " ", "UUID", " ">>, patient.uuid, <<",", " ", "DOB", " ">>, patient.dateOfBirth,
      <<",", " ", "Gender", " ">>, patient.gender, <<"\n">> >>)

\* generate_hl7_message, lines 877-887: the prompt around the command (the
\* sentences before and after it hold none of the labels the local generator
\* searches for)
Prompt(command) ==
    <<"following", " ", "command", ":", "\n", "\n">> \o command \o
    <<"\n", "\n", "CRITICAL", " ", "REQUIREMENTS", ":", "\n">>

\* (ADT[- ]?A\d{2}|A\d{2})
TriggerGroup(text, q) ==
    IF Upper(Tok(text, q)) = "ADT"
    THEN LET a == IF Tok(text, q + 1) \in {"-", " "} THEN q + 2 ELSE q + 1
         IN  IF /\ Upper(Tok(text, a)) = "A"
                /\ IsDigits(Tok(text, a + 1))
                /\ Len(Tok(text, a + 1)) = 2
             THEN a + 2 ELSE q
    ELSE IF /\ Upper(Tok(text, q)) = "A"
            /\ IsDigits(Tok(text, q + 1))
            /\ Len(Tok(text, q + 1)) = 2
         THEN q + 2 ELSE q

\* ([A-Za-z0-9\-_]+)
IdGroup(text, q) ==
    RunEnd(text, q, LAMBDA t : IsAlpha(t) \/ IsDigits(t) \/ t \in {"-", "_"})

IsNameChar(t) == IsAlpha(t) \/ t = "-"

\* the end of ([A-Za-z\-]+) from q
NameFirstEnd(text, q) == RunEnd(text, q, IsNameChar)

\* ([A-Za-z\-]+)\s+([A-Za-z\-]+)
NameGroup(text, q) ==
    LET e1 == NameFirstEnd(text, q)
        s == RunEnd(text, e1, IsSpace)
        e2 == RunEnd(text, s, IsNameChar)
    IN  IF e1 > q /\ s > e1 /\ e2 > s THEN e2 ELSE q

IsDateSep(t) == t \in {"-", "/"}

DigitsOf(text, p, n) == IsDigits(Tok(text, p)) /\ Len(Tok(text, p)) = n

\* ([0-9]{4}[-/]?[0-9]{2}[-/]?[0-9]{2}|[0-9]{8}); the inputs hold no run of
\* digits that the expression would cut in the middle
DobGroup(text, q) ==
    IF DigitsOf(text, q, 8) THEN q + 1
    ELSE IF DigitsOf(text, q, 4) /\ IsDateSep(Tok(text, q + 1)) /\ DigitsOf(text, q + 2, 2)
            /\ IsDateSep(Tok(text, q + 3)) /\ DigitsOf(text, q + 4, 2)
         THEN q + 5
    ELSE IF DigitsOf(text, q, 4) /\ IsDateSep(Tok(text, q + 1)) /\ DigitsOf(text, q + 2, 4)
         THEN q + 3
    ELSE IF DigitsOf(text, q, 6) /\ IsDateSep(Tok(text, q + 1)) /\ DigitsOf(text, q + 2, 2)
         THEN q + 3
    ELSE q

\* (M|F|Male|Female|U|Unknown), case-insensitive: the first letter decides
GenderGroup(text, q) ==
    IF IsAlpha(Tok(text, q)) /\ Initial(Tok(text, q)) \in {"M", "F", "U"} THEN q + 1 ELSE q

\* ([^\n]+)
AddressGroup(text, q) == RunEnd(text, q, LAMBDA t : t # "\n")

Capture(text, m) == IF m.found THEN SubSeq(text, m.from, m.to - 1) ELSE <<>>

\* lines 826-827: the trigger event of the command, ADT-A01 by default
TriggerOf(command_text, trig_match) ==
    IF trig_match.found
    THEN [k \in 1..(trig_match.to - trig_match.from) |->
            IF command_text[trig_match.from + k - 1] = " " THEN "-"
            ELSE Upper(command_text[trig_match.from + k - 1])]
    ELSE <<"ADT", "-", "A", "01">>

\* lines 835-839: last^first of the two words of the name
NameOf(command_text, name_match) ==
    IF name_match.found
    THEN SubSeq(command_text, name_match.from,
                NameFirstEnd(command_text, name_match.from) - 1) \o <<"^">> \o
         SubSeq(command_text,
                RunEnd(command_text, NameFirstEnd(command_text, name_match.from), IsSpace),
                name_match.to - 1)
    ELSE <<>>

\* lines 841-844: the date after "Date of Birth", else after "DOB", without
\* its separators
DobOf(command_text, dob_first) ==
    Remove(Remove(Capture(command_text,
                          IF dob_first.found THEN dob_first
                          ELSE Search(command_text, <<"DOB">>, DobGroup)), "-"), "/")

\* lines 846-856
SexOf(command_text, sex_match) ==
    IF sex_match.found
    THEN IF Initial(command_text[sex_match.from]) \in {"M", "F"}
         THEN <<Initial(command_text[sex_match.from])>> ELSE <<"U">>
    ELSE <<>>

\* lines 830 and 861-872: the four segments; now and the message control
\* id are opaque non-empty values
MessageOf(trigger, pid3, pid5, pid7, pid8, pid11) ==
    Join(<< Join(<< <<"MSH">>, <<"^~\\&">>, <<"SMART_APP">>, <<"SMART_FAC">>, <<"REC_APP">>,
                    <<"REC_FAC">>, <<"20240101120000">>, <<>>, Replace(trigger, "-", "^"),
                    <<"MSGID">>, <<"P">>, <<"2.5">> >>, "|"),
            <<"EVN", "|">> \o Split(trigger, "-")[Len(Split(trigger, "-"))]
                \o <<"|">> \o <<"20240101120000">>,
            Join(<< <<"PID">>, <<"1">>, <<>>, pid3, <<>>, pid5, <<>>, pid7, pid8,
                    <<>>, <<>>, pid11 >>, "|"),
            <<"PV1", "|", "1", "|",
              IF \E x \in {"01", "02", "03"} : Contains(trigger, <<"A", x>>)
              THEN "I" ELSE "O">> >>, "\n")

\* fallback_hl7_generator, lines 821-872
fallback_hl7_generator(command_text) ==
    MessageOf(
        TriggerOf(command_text, Search(command_text, <<"Trigger", " ", "Event">>, TriggerGroup)),
        StripText(Capture(command_text, Search(command_text, <<"Patient", " ", "ID">>, IdGroup))),
        NameOf(command_text, Search(command_text, <<"Patient", " ", "Name">>, NameGroup)),
        DobOf(command_text, Search(command_text, <<"Date", " ", "of", " ", "Birth">>, DobGroup)),
        SexOf(command_text, Search(command_text, <<"Gender">>, GenderGroup)),
        StripText(Capture(command_text, Search(command_text, <<"Address">>, AddressGroup))))

\* what the remote generator can return when it is configured and answers:
\* a message with one segment per line, the same message with the HL7
\* segment separator (carriage return), a message with two PID segments and
\* a message that already carries a ZPI segment
RemoteLines ==
    << <<"MSH", "|", "^~\\&", "|", "APP", "|", "FAC", "|", "APP", "|", "FAC", "|",
         "20240101120000", "|", "|", "ADT", "^", "A", "01", "|", "MSGID", "|", "P", "|", "2.5">>,
       <<"PID", "|", "1", "|", "|", "MRN", "000001", "|", "|", "Doe", "^", "John", "|", "|",
         "1990", "01", "15", "|", "M">> >>

RemoteReplies ==
    [lf |-> Join(RemoteLines, "\n"),
     cr |-> Join(RemoteLines, "\r"),
     twice |-> Join(Append(RemoteLines, RemoteLines[2]), "\n"),
     tagged |-> Join(<<RemoteLines[1], <<"ZPI", "|", "zzzz">>, RemoteLines[2]>>, "\n")]

Generators == {"local"} \cup DOMAIN RemoteReplies

\* ClientWrapper.generate, lines 784-793: the remote reply, or the local
\* generator when no remote is configured or the remote call raised
generate_hl7_message(via, command) ==
    IF via = "local" THEN fallback_hl7_generator(Prompt(command))
    ELSE RemoteReplies[via]

AddZpiReplacesPid(hl7_message, patient_uuid) ==
    LET lines == Split(hl7_message, "\n")
        result_lines ==
            [k \in 1..Len(lines) |->
                IF StartsWith(lines[k], <<"PID", "|">>)
                THEN <<"ZPI", "|">> \o patient_uuid ELSE lines[k]]
    IN  Join(result_lines, "\n")

\* lines 1325-1344
add_zpi_segment_with_uuid(hl7_message, patient_uuid) ==
    LET lines == Split(hl7_message, "\n")
        result_lines ==
            Concat([k \in 1..Len(lines) |->
                      IF StartsWith(lines[k], <<"PID", "|">>)
                      THEN <<lines[k], <<"ZPI", "|">> \o patient_uuid>>
                      ELSE <<lines[k]>>])
    IN  Join(result_lines, "\n")

\* FIELD_TIERS["CRITICAL_FIELDS"], lines 64-74
CRITICAL_FIELDS ==
    [MSH |-> <<9>>, PID |-> <<3, 5, 7, 8>>, ORC |-> <<2, 3>>,
     OBR |-> <<1, 2, 3, 4, 7>>, OBX |-> <<2, 3, 5>>]

\* validate_hl7_structure, lines 892-899, with hl7.parse: the text must start
\* with MSH; segments end at carriage returns, fields at the bars
validate_hl7_structure(hl7_message_text) ==
    LET hl7_formatted == Replace(hl7_message_text, "\n", "\r")
        strmsg == StripText(hl7_formatted)
    IN  IF Len(strmsg) = 0 \/ strmsg[1] # "MSH"
        THEN [ok |-> FALSE, segments |-> <<>>]
        ELSE LET segs == Split(strmsg, "\r")
             IN  [ok |-> TRUE,
                  segments |-> [k \in 1..Len(segs) |-> Split(segs[k], "|")]]

\* str(segment[field_index]).strip() is empty or the index is out of range;
\* in the MSH segment the field separator itself is field 1
FieldMissing(segment, field_index) ==
    LET at == IF segment[1] = <<"MSH">> THEN field_index ELSE field_index + 1
    IN  at > Len(segment) \/ StripText(segment[at]) = <<>>

SegmentName(segment) == IF Len(segment[1]) = 1 THEN segment[1][1] ELSE ""

\* validate_required_fields_api, lines 901-933
validate_required_fields_api(hl7_message_text) ==
    LET parsed == validate_hl7_structure(hl7_message_text)
        MissingIn(segment) ==
            IF SegmentName(segment) \in DOMAIN CRITICAL_FIELDS
            THEN LET required == CRITICAL_FIELDS[SegmentName(segment)]
                     miss == SelectSeq(required, LAMBDA i : FieldMissing(segment, i))
                 IN  [k \in 1..Len(miss) |-> <<SegmentName(segment), miss[k]>>]
            ELSE <<>>
        missing == Concat([k \in 1..Len(parsed.segments) |-> MissingIn(parsed.segments[k])])
    IN  IF ~parsed.ok
        THEN [is_valid |-> FALSE, missing_fields |-> <<>>, structure |-> FALSE]
        ELSE [is_valid |-> missing = <<>>, missing_fields |-> missing, structure |-> TRUE]

NoPatient ==
    [firstName |-> <<>>, lastName |-> <<>>, dateOfBirth |-> <<>>, gender |-> <<>>,
     mrn |-> <<>>, address |-> <<>>, uuid |-> <<>>]

NoGen ==
    [pc |-> "idle", patient |-> NoPatient, trigger_event |-> <<>>, via |-> "local",
     built |-> <<>>, hl7_message |-> <<>>,
     validation |-> [is_valid |-> FALSE, missing_fields |-> <<>>, structure |-> FALSE],
     status |-> "none"]

\* process_confirmed_patients, one iteration of the generation loop (lines
\* 1176-1212) for one record of the selection
GenRecord(patient, trigger_event, via) ==
    /\ gen.pc = "idle"
    /\ \E built \in {generate_hl7_message(via, Command(patient, trigger_event))} :
       \E hl7_message \in {add_zpi_segment_with_uuid(built, patient.uuid)} :
       \E validation \in {validate_required_fields_api(hl7_message)} :
          gen' = [pc |-> "generated", patient |-> patient,
                  trigger_event |-> trigger_event, via |-> via,
                  built |-> built, hl7_message |-> hl7_message,
                  validation |-> validation,
                  status |-> IF validation.is_valid THEN "success"
                             ELSE "validation_failed"]
    /\ UNCHANGED <<appVars, client, batch, builder, operation, mapper, preview>>

\* ------------------------------------------------------------ column mapping
\* The name of a column is a text of single characters.
\* str.lower(), on the letters
LowerChar(c) ==
    CASE c = "A" -> "a"
      [] c = "B" -> "b"
      [] c = "C" -> "c"
      [] c = "D" -> "d"
      [] c = "E" -> "e"
      [] c = "F" -> "f"
      [] c = "G" -> "g"
      [] c = "H" -> "h"
      [] c = "I" -> "i"
      [] c = "J" -> "j"
      [] c = "K" -> "k"
      [] c = "L" -> "l"
      [] c = "M" -> "m"
      [] c = "N" -> "n"
      [] c = "O" -> "o"
      [] c = "P" -> "p"
      [] c = "Q" -> "q"
      [] c = "R" -> "r"
      [] c = "S" -> "s"
      [] c = "T" -> "t"
      [] c = "U" -> "u"
      [] c = "V" -> "v"
      [] c = "W" -> "w"
      [] c = "X" -> "x"
      [] c = "Y" -> "y"
      [] c = "Z" -> "z"
      [] OTHER -> c

Lower(text) == [k \in 1..Len(text) |-> LowerChar(text[k])]

\* COLUMN_MAPPINGS, lines 276-319, in the order of the dict
COLUMN_MAPPINGS == <<
    [field |-> "firstName", variations |-> {
        <<"f", "i", "r", "s", "t", " ", "n", "a", "m", "e">>,
        <<"f", "i", "r", "s", "t", "_", "n", "a", "m", "e">>,
        <<"f", "i", "r", "s", "t", "n", "a", "m", "e">>,
        <<"f", "n", "a", "m", "e">>,
        <<"g", "i", "v", "e", "n", " ", "n", "a", "m", "e">>,
        <<"g", "i", "v", "e", "n", "_", "n", "a", "m", "e">>,
        <<"g", "i", "v", "e", "n", "n", "a", "m", "e">>,
        <<"p", "a", "t", "i", "e", "n", "t", " ", "f", "i", "r", "s", "t", " ", "n", "a", "m", "e">>,
        <<"p", "a", "t", "e", "i", "n", "t", " ", "f", "i", "r", "s", "t", " ", "n", "a", "m", "e">>}],
    [field |-> "lastName", variations |-> {
        <<"l", "a", "s", "t", " ", "n", "a", "m", "e">>,
        <<"l", "a", "s", "t", "_", "n", "a", "m", "e">>,
        <<"l", "a", "s", "t", "n", "a", "m", "e">>,
        <<"l", "n", "a", "m", "e">>,
        <<"f", "a", "m", "i", "l", "y", " ", "n", "a", "m", "e">>,
        <<"f", "a", "m", "i", "l", "y", "_", "n", "a", "m", "e">>,
        <<"f", "a", "m", "i", "l", "y", "n", "a", "m", "e">>,
        <<"s", "u", "r", "n", "a", "m", "e">>,
        <<"p", "a", "t", "i", "e", "n", "t", " ", "l", "a", "s", "t", " ", "n", "a", "m", "e">>}],
    [field |-> "dateOfBirth", variations |-> {
        <<"d", "a", "t", "e", " ", "o", "f", " ", "b", "i", "r", "t", "h">>,
        <<"d", "a", "t", "e", "_", "o", "f", "_", "b", "i", "r", "t", "h">>,
        <<"d", "o", "b">>,
        <<"b", "i", "r", "t", "h", " ", "d", "a", "t", "e">>,
        <<"b", "i", "r", "t", "h", "_", "d", "a", "t", "e">>,
        <<"b", "i", "r", "t", "h", "d", "a", "t", "e">>,
        <<"b", "i", "r", "t", "h", "d", "a", "y">>}],
    [field |-> "gender", variations |-> {
        <<"g", "e", "n", "d", "e", "r">>,
        <<"s", "e", "x">>,
        <<"m", "/", "f">>}],
    [field |-> "mrn", variations |-> {
        <<"m", "r", "n">>,
        <<"m", "e", "d", "i", "c", "a", "l", " ", "r", "e", "c", "o", "r", "d", " ", "n", "u", "m", "b", "e", "r">>,
        <<"m", "e", "d", "i", "c", "a", "l", "_", "r", "e", "c", "o", "r", "d", "_", "n", "u", "m", "b", "e", "r">>,
        <<"p", "a", "t", "i", "e", "n", "t", " ", "i", "d">>,
        <<"p", "a", "t", "i", "e", "n", "t", "_", "i", "d">>,
        <<"p", "a", "t", "i", "e", "n", "t", "i", "d">>}],
    [field |-> "phone", variations |-> {
        <<"p", "h", "o", "n", "e">>,
        <<"p", "h", "o", "n", "e", " ", "n", "u", "m", "b", "e", "r">>,
        <<"p", "h", "o", "n", "e", "_", "n", "u", "m", "b", "e", "r">>,
        <<"t", "e", "l", "e", "p", "h", "o", "n", "e">>,
        <<"t", "e", "l">>,
        <<"m", "o", "b", "i", "l", "e">>,
        <<"c", "e", "l", "l">>}],
    [field |-> "email", variations |-> {
        <<"e", "m", "a", "i", "l">>,
        <<"e", "-", "m", "a", "i", "l">>,
        <<"e", "m", "a", "i", "l", " ", "a", "d", "d", "r", "e", "s", "s">>,
        <<"e", "m", "a", "i", "l", "_", "a", "d", "d", "r", "e", "s", "s">>}],
    [field |-> "address", variations |-> {
        <<"a", "d", "d", "r", "e", "s", "s">>,
        <<"s", "t", "r", "e", "e", "t">>,
        <<"s", "t", "r", "e", "e", "t", " ", "a", "d", "d", "r", "e", "s", "s">>,
        <<"s", "t", "r", "e", "e", "t", "_", "a", "d", "d", "r", "e", "s", "s">>,
        <<"a", "d", "d", "r", "e", "s", "s", " ", "l", "i", "n", "e", " ", "1">>,
        <<"a", "d", "d", "r", "e", "s", "s", "_", "l", "i", "n", "e", "_", "1">>,
        <<"a", "d", "d", "r", "e", "s", "s", " ", "1">>}],
    [field |-> "city", variations |-> {
        <<"c", "i", "t", "y">>,
        <<"t", "o", "w", "n">>}],
    [field |-> "state", variations |-> {
        <<"s", "t", "a", "t", "e">>,
        <<"p", "r", "o", "v", "i", "n", "c", "e">>,
        <<"r", "e", "g", "i", "o", "n">>}],
    [field |-> "zip", variations |-> {
        <<"z", "i", "p">>,
        <<"z", "i", "p", " ", "c", "o", "d", "e">>,
        <<"z", "i", "p", "_", "c", "o", "d", "e">>,
        <<"z", "i", "p", "c", "o", "d", "e">>,
        <<"p", "o", "s", "t", "a", "l", " ", "c", "o", "d", "e">>,
        <<"p", "o", "s", "t", "a", "l", "_", "c", "o", "d", "e">>,
        <<"p", "o", "s", "t", "a", "l", "c", "o", "d", "e">>}] >>

\* lines 348-349
noise_words == {
    <<"a">>,
    <<"a", "n">>,
    <<"c", "o", "l", "u", "m", "n">>,
    <<"d", "a", "t", "a">>,
    <<"f", "i", "e", "l", "d">>,
    <<"i", "n", "f", "o">>,
    <<"i", "n", "f", "o", "r", "m", "a", "t", "i", "o", "n">>,
    <<"p", "a", "t", "i", "e", "n", "t">>,
    <<"p", "e", "r", "s", "o", "n">>,
    <<"r", "e", "c", "o", "r", "d">>,
    <<"t", "h", "e">>,
    <<"v", "a", "l", "u", "e">>}

\* lines 352-364, in the order of the dict
field_keywords == <<
    [field |-> "firstName", keywords |-> {<<"f", "i", "r", "s", "t">>, <<"g", "i", "v", "e", "n">>, <<"f", "n", "a", "m", "e">>}],
    [field |-> "lastName", keywords |-> {<<"l", "a", "s", "t">>, <<"f", "a", "m", "i", "l", "y">>, <<"s", "u", "r", "n", "a", "m", "e">>, <<"l", "n", "a", "m", "e">>}],
    [field |-> "dateOfBirth", keywords |-> {<<"b", "i", "r", "t", "h">>, <<"d", "o", "b">>, <<"b", "o", "r", "n">>}],
    [field |-> "gender", keywords |-> {<<"g", "e", "n", "d", "e", "r">>, <<"s", "e", "x">>}],
    [field |-> "email", keywords |-> {<<"e", "m", "a", "i", "l">>, <<"e", "-", "m", "a", "i", "l">>, <<"m", "a", "i", "l">>}],
    [field |-> "phone", keywords |-> {<<"p", "h", "o", "n", "e">>, <<"t", "e", "l">>, <<"m", "o", "b", "i", "l", "e">>, <<"c", "e", "l", "l">>}],
    [field |-> "mrn", keywords |-> {<<"m", "r", "n">>}],
    [field |-> "address", keywords |-> {<<"a", "d", "d", "r", "e", "s", "s">>, <<"s", "t", "r", "e", "e", "t">>, <<"a", "d", "d", "r">>}],
    [field |-> "city", keywords |-> {<<"c", "i", "t", "y">>, <<"t", "o", "w", "n">>}],
    [field |-> "state", keywords |-> {<<"s", "t", "a", "t", "e">>, <<"p", "r", "o", "v", "i", "n", "c", "e">>, <<"r", "e", "g", "i", "o", "n">>}],
    [field |-> "zip", keywords |-> {<<"z", "i", "p">>, <<"p", "o", "s", "t", "a", "l">>, <<"p", "o", "s", "t", "c", "o", "d", "e">>}] >>

Separators == {"_", "-", "/"} \cup SpaceChars

\* re.split(r'[_\s\-/]+', text), without the empty pieces that line 370 drops
SplitWords(text) ==
    LET marked == [k \in 1..Len(text) |-> IF text[k] \in Separators THEN "_" ELSE text[k]]
    IN  SelectSeq(Split(marked, "_"), LAMBDA w : w # <<>>)

FirstField(table, Hit(_)) ==
    LET hits == {i \in 1..Len(table) : Hit(table[i])}
    IN  IF hits = {} THEN ""
        ELSE table[CHOOSE i \in hits : \A m \in hits : i <= m].field

\* normalize_column_name, lines 321-397; "" is None
normalize_column_name(column) ==
    IF column = <<>> THEN ""
    ELSE
    LET normalized == StripText(Lower(column))
        exact == FirstField(COLUMN_MAPPINGS, LAMBDA e : normalized \in e.variations)
        words == SplitWords(normalized)
        meaningful_words == SelectSeq(words, LAMBDA w : w \notin noise_words)
        by_word == FirstField(field_keywords,
                      LAMBDA e : \E keyword \in e.keywords, k \in 1..Len(meaningful_words) :
                                    keyword = meaningful_words[k])
        by_part == FirstField(field_keywords,
                      LAMBDA e : \E keyword \in e.keywords, k \in 1..Len(meaningful_words) :
                                    /\ Len(keyword) >= 3
                                    /\ \/ Contains(meaningful_words[k], keyword)
                                       \/ Contains(keyword, meaningful_words[k]))
    IN  IF exact # "" THEN exact
        ELSE IF by_word # "" THEN by_word
        ELSE IF by_part # "" THEN by_part
        ELSE IF normalized \in {<<"n", "a", "m", "e">>,
                                <<"p", "a", "t", "i", "e", "n", "t", " ", "n", "a", "m", "e">>}
             THEN "firstName"
        ELSE ""

\* the column names of the uploads: "First Name", "Last-Name", "Notes", "Name"
ColumnNames ==
    {<<"F", "i", "r", "s", "t", " ", "N", "a", "m", "e">>,
     <<"L", "a", "s", "t", "-", "N", "a", "m", "e">>,
     <<"N", "o", "t", "e", "s">>,
     <<"N", "a", "m", "e">>}

\* words of column names, and the names made of one word or of two words
\* around a space or an underscore
KeywordVocabulary ==
    {<<"E", "m", "a", "i", "l">>,
     <<"E", "m", "a", "i", "l", "s">>,
     <<"A", "d", "d", "r", "e", "s", "s">>,
     <<"S", "t">>,
     <<"F", "i", "r", "s", "t">>,
     <<"P", "h", "o", "n", "e">>,
     <<"N", "o", "t", "e", "s">>,
     <<"Z", "i", "p">>,
     <<"P", "a", "t", "i", "e", "n", "t">>,
     <<"M", "a", "i", "l">>,
     <<"B", "i", "r", "t", "h">>,
     <<"D", "a", "t", "e">>}

KeywordColumns ==
    KeywordVocabulary \cup
    {a \o <<sep>> \o b : a \in KeywordVocabulary, b \in KeywordVocabulary, sep \in {" ", "_"}}

\* confidence of a fuzzy match (0.7) and of a classifier answer, in percent
FuzzyConfidence == 70
LlmConfidence == 95

NoMappingResult ==
    [mapping |-> <<>>, confidence |-> <<>>,
     warnings |-> [null |-> FALSE, items |-> <<>>], unmapped |-> <<>>]

\* the classifier did not answer, or its answer is not JSON
NoReply == [raised |-> TRUE, mappings |-> <<>>, warnings |-> "none", unmapped |-> <<>>]

\* the parsed answers of the classifier for a list of columns: up to
\* MaxEntries mappings, each for a column of the list and possibly without
\* its "field" key, a list of warnings or null, and a list of unmapped columns
LlmReplies(column_names) ==
    [raised : {FALSE},
     mappings : SeqsUpTo([column : Range(column_names), field : {"lastName"},
                          has_field : BOOLEAN], MaxEntries),
     warnings : {"none", "some", "null"},
     unmapped : SeqsUpTo(Range(column_names), 1)]

\* lines 428-435 and 543-550: the fuzzy chain over the columns, onto result
FuzzyFallback(column_names, result) ==
    LET RECURSIVE Go(_, _)
        Go(k, r) ==
            IF k > Len(column_names) THEN r
            ELSE LET col == column_names[k]
                     mapped == normalize_column_name(col)
                 IN  IF mapped # ""
                     THEN Go(k + 1, [r EXCEPT !.mapping = Put(@, col, mapped),
                                              !.confidence = Put(@, col, FuzzyConfidence)])
                     ELSE Go(k + 1, [r EXCEPT !.unmapped = Append(@, col)])
    IN  Go(1, result)

\* lines 515-525: the mappings of the answer, up to the first that raises
ApplyMappings(mappings, result) ==
    LET RECURSIVE Go(_, _)
        Go(k, r) ==
            IF k > Len(mappings) \/ ~mappings[k].has_field THEN r
            ELSE Go(k + 1, [r EXCEPT
                              !.mapping = Put(@, mappings[k].column, mappings[k].field),
                              !.confidence = Put(@, mappings[k].column, LlmConfidence)])
    IN  Go(1, result)

\* map_columns_with_llm, lines 399-554.  use_llm stands for use_llm and
\* OPENAI_SDK_AVAILABLE; llm is what the classifier call produced.
map_columns_with_llm(column_names, use_llm, llm) ==
    IF ~use_llm
    THEN [failed |-> FALSE, result |-> FuzzyFallback(column_names, NoMappingResult)]
    ELSE IF llm.raised
    THEN [failed |-> TRUE, result |-> FuzzyFallback(column_names, NoMappingResult)]
    ELSE
    LET mapped == ApplyMappings(llm.mappings, NoMappingResult)
        entry_raised == \E k \in 1..Len(llm.mappings) : ~llm.mappings[k].has_field
        assigned == [mapped EXCEPT
                       !.warnings = [null |-> llm.warnings = "null",
                                     items |-> IF llm.warnings = "some"
                                               THEN <<"ambiguous column">> ELSE <<>>],
                       !.unmapped = llm.unmapped]
    IN  IF entry_raised
        THEN [failed |-> TRUE, result |-> FuzzyFallback(column_names, mapped)]
        ELSE IF llm.warnings = "null"
        THEN [failed |-> TRUE, result |-> FuzzyFallback(column_names, assigned)]
        ELSE [failed |-> FALSE, result |-> assigned]

NoMapper == <<>>

MapCall(column_names, use_llm, llm) ==
    [column_names |-> column_names, use_llm |-> use_llm, llm |-> llm,
     failed |-> map_columns_with_llm(column_names, use_llm, llm).failed,
     result |-> map_columns_with_llm(column_names, use_llm, llm).result]

\* parse_csv_with_preview maps the columns of an uploaded file (line 650)
MapColumns(column_names, use_llm, llm) ==
    /\ mapper = <<>>
    /\ ~use_llm => llm = NoReply
    /\ mapper' = <<MapCall(column_names, use_llm, llm)>>
    /\ UNCHANGED <<appVars, client, batch, builder, operation, gen, preview>>

\* the same file is uploaded again: the same columns in the same mode; the
\* classifier (temperature 0) answers as before, or the call raises
MapAgain(raises) ==
    /\ Len(mapper) = 1
    /\ raises => mapper[1].use_llm
    /\ mapper' = Append(mapper, MapCall(mapper[1].column_names, mapper[1].use_llm,
                                        IF raises THEN NoReply ELSE mapper[1].llm))
    /\ UNCHANGED <<appVars, client, batch, builder, operation, gen, preview>>


\* --------------------------------------------------- upload preview, in detail
\* str.lower() on the words of the inputs
LowerWord(t) ==
    CASE t \in {"Male", "MALE"} -> "male"
      [] t = "Female" -> "female"
      [] t = "Other" -> "other"
      [] t = "Unknown" -> "unknown"
      [] t = "M" -> "m"
      [] t = "F" -> "f"
      [] t = "X" -> "x"
      [] OTHER -> t

required_fields == <<"firstName", "lastName", "dateOfBirth", "gender", "mrn">>

\* re.match(r"^\d{4}-\d{2}-\d{2}$", dob); $ also matches before a final \n
MatchesIsoDate(dob) ==
    LET body == IF Len(dob) = 6 /\ dob[6] = "\n" THEN SubSeq(dob, 1, 5) ELSE dob
    IN  /\ Len(body) = 5
        /\ DigitsOf(body, 1, 4) /\ body[2] = "-"
        /\ DigitsOf(body, 3, 2) /\ body[4] = "-"
        /\ DigitsOf(body, 5, 2)

AcceptedGenders ==
    {<<"m">>, <<"f">>, <<"male">>, <<"female">>, <<"other">>, <<"u">>, <<"unknown">>}

ValidateOverridesInvalid(patient) ==
    LET missing == SelectSeq(required_fields, LAMBDA f : patient[f] = <<>>)
        dob == patient.dateOfBirth
        bad_dob == dob # <<>> /\ ~MatchesIsoDate(dob)
        gender == [k \in 1..Len(patient.gender) |-> LowerWord(patient.gender[k])]
        bad_gender == gender # <<>> /\ gender \notin AcceptedGenders
    IN  [status |-> IF bad_dob \/ bad_gender THEN "warning"
                    ELSE IF missing # <<>> THEN "invalid" ELSE "valid",
         messages |->
            [k \in 1..Len(missing) |-> <<"Missing required field", ":", " ", missing[k]>>]
            \o (IF bad_dob THEN << <<"Invalid date format for DOB", ":", " ">> \o dob >> ELSE <<>>)
            \o (IF bad_gender THEN << <<"Invalid gender value", ":", " ">> \o gender >> ELSE <<>>)]

\* validate_patient_record, lines 595-623
validate_patient_record(patient) ==
    LET missing == SelectSeq(required_fields, LAMBDA f : patient[f] = <<>>)
        dob == patient.dateOfBirth
        bad_dob == dob # <<>> /\ ~MatchesIsoDate(dob)
        gender == [k \in 1..Len(patient.gender) |-> LowerWord(patient.gender[k])]
        bad_gender == gender # <<>> /\ gender \notin AcceptedGenders
    IN  [status |-> IF missing # <<>> THEN "invalid"
                    ELSE IF bad_dob \/ bad_gender THEN "warning" ELSE "valid",
         messages |->
            [k \in 1..Len(missing) |-> <<"Missing required field", ":", " ", missing[k]>>]
            \o (IF bad_dob THEN << <<"Invalid date format for DOB", ":", " ">> \o dob >> ELSE <<>>)
            \o (IF bad_gender THEN << <<"Invalid gender value", ":", " ">> \o gender >> ELSE <<>>)]

\* the headers of the uploaded file: "First Name", "Last Name", "DOB", "Sex"
Headers ==
    << <<"F", "i", "r", "s", "t", " ", "N", "a", "m", "e">>,
       <<"L", "a", "s", "t", " ", "N", "a", "m", "e">>,
       <<"D", "O", "B">>,
       <<"S", "e", "x">> >>

\* the cells of a row, by header; <<>> is an empty cell (NaN)
Rows ==
    {[h \in Range(Headers) |->
        IF h = Headers[1] THEN first ELSE IF h = Headers[2] THEN last
        ELSE IF h = Headers[3] THEN dob ELSE sex] :
        first \in {<<"John">>, <<>>}, last \in {<<"Doe">>, <<>>},
        dob \in {<<"1990", "-", "01", "-", "15">>, <<"01", "/", "15", "/", "1990">>,
                 <<"sometime">>, <<>>},
        sex \in {<<"Female">>, <<>>}}

\* parse_date_flexible on a cell, lines 556-593: pandas reads an ISO date and
\* a month/day/year date; <<>> is None
parse_date_flexible(date_value) ==
    IF MatchesIsoDate(date_value) /\ Len(date_value) = 5 THEN date_value
    ELSE IF /\ Len(date_value) = 5
            /\ DigitsOf(date_value, 1, 2) /\ date_value[2] = "/"
            /\ DigitsOf(date_value, 3, 2) /\ date_value[4] = "/"
            /\ DigitsOf(date_value, 5, 4)
         THEN <<date_value[5], "-", date_value[1], "-", date_value[3]>>
    ELSE <<>>

\* get_field, lines 677-684
get_field(column_mapping, row, field_name) ==
    LET cols == SelectSeq(Headers, LAMBDA col : /\ col \in DOMAIN column_mapping
                                                /\ column_mapping[col] = field_name
                                                /\ row[col] # <<>>)
    IN  IF cols = <<>> THEN <<>> ELSE StripText(row[cols[1]])

\* str(index + 1).zfill(6) and the keys uuid.uuid4() yields, per row
RowNumbers == <<"000001", "000002", "000003">>
RowUuids == << <<"u1">>, <<"u2">>, <<"u3">> >>

\* lines 707-714: the gender of a record from the cell of the row
NormalGender(gender_raw) ==
    IF gender_raw = <<>> THEN <<"Unknown">>
    ELSE IF Initial(gender_raw[1]) = "M" THEN <<"Male">>
    ELSE IF Initial(gender_raw[1]) = "F" THEN <<"Female">>
    ELSE IF gender_raw[1] \in {"Other", "O", "other", "o"} THEN <<"Other">>
    ELSE <<"Unknown">>

\* lines 702-704: the parsed date, else the text of the cell
DobFormatted(dob_parsed, dob_raw) ==
    IF dob_parsed = <<>> /\ dob_raw # <<>> THEN dob_raw ELSE dob_parsed

\* the cell of the first column mapped to dateOfBirth (line 702)
DobCell(column_mapping, row) ==
    IF \E col \in DOMAIN column_mapping : column_mapping[col] = "dateOfBirth"
    THEN row[CHOOSE col \in DOMAIN column_mapping :
                /\ column_mapping[col] = "dateOfBirth"
                /\ \A k, m \in 1..Len(Headers) :
                      (Headers[k] = col /\ Headers[m] \in DOMAIN column_mapping
                       /\ column_mapping[Headers[m]] = "dateOfBirth") => k <= m]
    ELSE <<>>

\* line 694
MrnOf(mrn_raw, index) ==
    IF mrn_raw # <<>> THEN mrn_raw ELSE <<"MRN", RowNumbers[index + 1]>>

\* lines 743-752: the entries a record adds to the validation errors
RowErrors(index, verdict) ==
    IF verdict.status = "invalid"
    THEN [k \in 1..Len(verdict.messages) |->
            [row |-> index + 2,
             field |-> IF ":" \in Range(verdict.messages[k])
                       THEN Split(verdict.messages[k], ":")[1]
                       ELSE <<"unknown">>,
             error |-> verdict.messages[k],
             severity |-> "error"]]
    ELSE <<>>

\* lines 738-755: the record with its validation, and its entries
Validated(patient_dict, verdict) ==
    [record |-> [index |-> patient_dict.index, uuid |-> patient_dict.uuid,
                 firstName |-> patient_dict.firstName, lastName |-> patient_dict.lastName,
                 dateOfBirth |-> patient_dict.dateOfBirth, gender |-> patient_dict.gender,
                 mrn |-> patient_dict.mrn,
                 validation_status |-> verdict.status,
                 validation_messages |-> verdict.messages],
     errors |-> RowErrors(patient_dict.index, verdict),
     kept |-> TRUE]

ValidatedRecord(patient_dict) ==
    Validated(patient_dict, validate_patient_record(patient_dict))

\* lines 757-766: a row whose processing raised adds one entry and no record
RowFailed(index) ==
    [record |-> <<>>,
     errors |-> <<[row |-> index + 2, field |-> <<"parsing">>,
                   error |-> <<"Error parsing row">>, severity |-> "error"]>>,
     kept |-> FALSE]

\* lines 677-766: the record of the row with this index (0-based); raises
\* tells that a statement of the try block raised for this row
ParseRow(column_mapping, row, index, raises) ==
    IF raises THEN RowFailed(index) ELSE
    ValidatedRecord(
        [index |-> index,
         uuid |-> RowUuids[index + 1],
         firstName |-> get_field(column_mapping, row, "firstName"),
         lastName |-> get_field(column_mapping, row, "lastName"),
         dateOfBirth |-> DobFormatted(parse_date_flexible(DobCell(column_mapping, row)),
                                      get_field(column_mapping, row, "dateOfBirth")),
         gender |-> NormalGender(get_field(column_mapping, row, "gender")),
         mrn |-> MrnOf(get_field(column_mapping, row, "mrn"), index)])

\* lines 645-648: the mapping of the headers when the classifier is not
\* reachable, which is that of the fuzzy chain
HeaderMapping == map_columns_with_llm(Headers, TRUE, NoReply).result

\* lines 650-669: the entries for the warnings and the unmapped columns
ColumnErrors(llm_result) ==
    [k \in 1..Len(llm_result.warnings.items) |->
        [row |-> 0, field |-> <<"column_mapping">>,
         error |-> <<llm_result.warnings.items[k]>>, severity |-> "warning"]]
    \o [k \in 1..Len(llm_result.unmapped) |->
        [row |-> 0, field |-> llm_result.unmapped[k],
         error |-> <<"Could not map column">>, severity |-> "warning"]]

\* lines 677-768: the records and the entries of the rows
ParsedRows(parsed) ==
    [parsed_records |-> [k \in 1..Cardinality({m \in 1..Len(parsed) : parsed[m].kept}) |->
                            SelectSeq(parsed, LAMBDA r : r.kept)[k].record],
     validation_errors |-> Concat([k \in 1..Len(parsed) |-> parsed[k].errors])]

PrependErrors(column_errors, parsed) ==
    [parsed_records |-> parsed.parsed_records,
     validation_errors |-> column_errors \o parsed.validation_errors]

\* parse_csv_with_preview, lines 625-768
parse_csv_with_preview(llm_result, rows, faults) ==
    PrependErrors(ColumnErrors(llm_result),
                  ParsedRows([k \in 1..Len(rows) |->
                                ParseRow(llm_result.mapping, rows[k], k - 1, k \in faults)]))

NoVerdict == [status |-> "none", messages |-> <<>>]

NoPreview ==
    [pc |-> "idle", rows |-> <<>>, faults |-> {}, parsed_records |-> <<>>,
     validation_errors |-> <<>>,
     session |-> [status |-> "none", total_records |-> 0, uploaded_at |-> 0, expires_at |-> 0],
     upload_response |-> [total_records |-> 0, valid_records |-> 0, invalid_records |-> 0,
                          expires_at |-> 0],
     patient |-> NoPatient, verdict |-> NoVerdict,
     patients |-> <<>>]

\* lines 1983-1984: the records whose status is valid
ValidCount(parsed_records) ==
    Cardinality({k \in 1..Len(parsed_records) :
                    parsed_records[k].validation_status = "valid"})

\* upload_csv_file, lines 1887-1999, for a file of these rows; faults are the
\* rows (counted from 1) whose processing raises
PreviewUpload(rows, faults) ==
    /\ preview.pc = "idle"
    /\ \E parsed \in {parse_csv_with_preview(HeaderMapping, rows, faults)} :
       \E uploaded_at \in {now} :
       \E valid_count \in {ValidCount(parsed.parsed_records)} :
          preview' = [preview EXCEPT
                        !.pc = "uploaded",
                        !.rows = rows,
                        !.faults = faults,
                        !.parsed_records = parsed.parsed_records,
                        !.validation_errors = parsed.validation_errors,
                        !.session = [status |-> "pending",
                                     total_records |-> Len(parsed.parsed_records),
                                     uploaded_at |-> uploaded_at,
                                     expires_at |-> uploaded_at + SessionTTL],
                        !.upload_response =
                            [total_records |-> Len(parsed.parsed_records),
                             valid_records |-> valid_count,
                             invalid_records |-> Len(parsed.parsed_records) - valid_count,
                             expires_at |-> uploaded_at + SessionTTL]]
    /\ UNCHANGED <<appVars, client, batch, builder, operation, gen, mapper>>

\* the records validate_patient_record can be given
ValidationInputs ==
    [firstName : {<<"John">>, <<>>}, lastName : {<<"Doe">>, <<>>},
     dateOfBirth : {<<"1990", "-", "01", "-", "15">>, <<"01", "/", "15", "/", "1990">>,
                    <<"sometime">>, <<>>},
     gender : {<<"Male">>, <<"MALE">>, <<"other">>, <<"X">>, <<>>},
     mrn : {<<"MRN", "000001">>, <<>>},
     address : {<<>>}, uuid : {<<"u1">>}]

\* validate_patient_record applied to one record
Validate(patient) ==
    /\ preview.pc = "idle"
    /\ preview' = [preview EXCEPT !.pc = "validated", !.patient = patient,
                                  !.verdict = validate_patient_record(patient)]
    /\ UNCHANGED <<appVars, client, batch, builder, operation, gen, mapper>>

\* ------------------------------------------- the CSV service of the backend
\* The rows csv.DictReader yields for the headers first_name, last_name: a
\* row shorter than the header has None for its last cell.
DictRows ==
    [first_name : {<<"John">>, <<>>}, last_name : {<<"Doe">>, <<>>, <<"None">>}]

\* CSVProcessingService._parse_patient_row, lines 144-200: None for a row
\* without content or without a name; .strip() of a None cell raises
parse_patient_row(row, row_num) ==
    IF row.first_name = <<>> /\ row.last_name \in {<<>>, <<"None">>}
    THEN [kind |-> "none", row_num |-> row_num]
    ELSE IF row.last_name = <<"None">>
    THEN [kind |-> "raised", row_num |-> row_num]
    ELSE [kind |-> "patient", row_num |-> row_num,
          first_name |-> StripText(row.first_name),
          last_name |-> StripText(row.last_name)]

\* CSVProcessingService.parse_csv, lines 50-94: the patients of the rows; a
\* row that raised is logged and skipped
parse_csv(rows) ==
    /\ preview.pc = "idle"
    /\ preview' = [preview EXCEPT
                     !.pc = "service_parsed",
                     !.rows = rows,
                     !.patients =
                         SelectSeq([k \in 1..Len(rows) |-> parse_patient_row(rows[k], k + 1)],
                                   LAMBDA r : r.kind = "patient")]
    /\ UNCHANGED <<appVars, client, batch, builder, operation, gen, mapper>>

\* ------------------------------------------------------ message control ids
\* str(uuid.uuid4()) as the pair of its first 20 characters and the rest:
\* uuid4 never yields the same value twice, its first 20 characters can repeat
UuidHeads == {"h1", "h2"}
UuidTails == {"t1", "t2"}
Uuid4Values == [head : UuidHeads, tail : UuidTails]

\* str(datetime.now().timestamp())
Timestamp(t) == <<"ts", ToString(t)>>

BuilderMrns == {<<"MRN", "000001">>, <<"MRN", "000002">>, <<>>}

NoBuilder == [built |-> <<>>, uuids |-> {}]

\* fallback_hl7_generator, line 824: MSH-10 is str(uuid.uuid4())[:20]
FallbackBuild(mrn, u) ==
    /\ Len(builder.built) < MaxBuilds
    /\ u \notin builder.uuids
    /\ builder' = [built |-> Append(builder.built,
                                    [by |-> "fallback_hl7_generator", mrn |-> mrn,
                                     message_control_id |-> <<u.head>>]),
                   uuids |-> builder.uuids \cup {u}]
    /\ UNCHANGED <<appVars, client, batch, operation, gen, mapper, preview>>

\* HL7v2Service.create_patient_message, line 34: MSH-10 is the MRN of the
\* patient, or the time of the call when the patient has none
create_patient_message(mrn) ==
    /\ Len(builder.built) < MaxBuilds
    /\ builder' = [builder EXCEPT !.built =
                      Append(@, [by |-> "create_patient_message", mrn |-> mrn,
                                 message_control_id |->
                                     IF mrn # <<>> THEN mrn ELSE Timestamp(now)])]
    /\ UNCHANGED <<appVars, client, batch, operation, gen, mapper, preview>>

\* ------------------------------------- the operation of the UI-compatible API
\* errors[:10] in _handle_create_bulk and _handle_csv_upload
ErrorCap == 10

UiOutcomes == {"sent", "rejected", "raise"}

\* OperationResponse; errors = None is the empty list here
NoOperationResponse ==
    [status |-> "none", records_affected |-> 0, records_succeeded |-> 0,
     records_failed |-> 0, errors |-> <<>>]

NoOperation ==
    [pc |-> "idle", patients |-> 0, done |-> 0, successful |-> 0, failed |-> 0,
     errors |-> <<>>, result |-> NoOperationResponse]

\* main_ui_compatible.py lines 661-668: the text appended for a record
UiError(outcome) ==
    IF outcome = "rejected" THEN "Failed to send" ELSE "Error processing patient"

\* confirm_operation (confirmed, preview found) calls process_patients_async
\* with the n patients of the preview whose validation_status is valid
UiConfirm(n) ==
    /\ operation.pc = "idle"
    /\ operation' = [operation EXCEPT !.pc = "loop", !.patients = n]
    /\ UNCHANGED <<appVars, client, batch, builder, gen, mapper, preview>>

\* process_patients_async, one iteration (lines 653-668): the message was
\* sent and acknowledged, sent and rejected, or the iteration raised
UiRecord(outcome) ==
    /\ operation.pc = "loop"
    /\ operation.done < operation.patients
    /\ operation' = [operation EXCEPT
                       !.done = @ + 1,
                       !.successful = IF outcome = "sent" THEN @ + 1 ELSE @,
                       !.failed = IF outcome = "sent" THEN @ ELSE @ + 1,
                       !.errors = IF outcome = "sent" THEN @
                                  ELSE Append(@, UiError(outcome))]
    /\ UNCHANGED <<appVars, client, batch, builder, gen, mapper, preview>>

\* lines 670-689
UiReturn ==
    /\ operation.pc = "loop"
    /\ operation.done = operation.patients
    /\ operation' = [operation EXCEPT
                       !.pc = "returned",
                       !.result = [status |-> UiStatus(operation.successful, operation.failed),
                                   records_affected |-> operation.patients,
                                   records_succeeded |-> operation.successful,
                                   records_failed |-> operation.failed,
                                   errors |-> operation.errors]]
    /\ UNCHANGED <<appVars, client, batch, builder, gen, mapper, preview>>


\* ------------------------------------------------------------------- clock
Tick ==
    /\ now < MaxTime
    /\ now' = now + 1
    /\ UNCHANGED <<upload_sessions, tasks, streams, dashboard_stats, nextId, mllp_calls, mirth, client, batch, callVars>>
    /\ response' = NoResponse

\* The state after start-up, against a listener in the given mode
Start(mode) ==
    /\ upload_sessions = <<>>
    /\ tasks = <<>>
    /\ streams = <<>>
    /\ dashboard_stats = [total_processed |-> 0, hl7_messages_generated |-> 0,
                          successful_sends |-> 0, failed_sends |-> 0]
    /\ now = 0
    /\ nextId = 1
    /\ response = NoResponse
    /\ mllp_calls = <<>>
    /\ mirth = mode
    /\ client = [cur |-> NoCall, open |-> {}, nextSock |-> 1, calls |-> 0,
                 socks |-> <<>>, loop |-> NoLoop]
    /\ batch = [pc |-> "idle", total_count |-> 0, acks |-> <<>>, succeeded |-> 0,
                failed |-> 0, faulted |-> FALSE, result |-> NoOperationResult]
    /\ operation = NoOperation
    /\ gen = NoGen
    /\ mapper = NoMapper
    /\ preview = NoPreview
    /\ builder = NoBuilder

Init == Start("accept")

\* ---------------------------------------------------------- specifications
Selections == SeqsUpTo(0..MaxRows, MaxSelLen)

\* A confirm that would create a job, while fewer than cap jobs exist
ConfirmWithin(cap, sid, sel, flag) ==
    /\ ConfirmCode(sid, sel) = 200 => Cardinality(JobIds) < cap
    /\ Confirm(sid, sel, flag)

Worker(j) == WorkerStart(j) \/ WorkerGenerate(j) \/ WorkerFinish(j)

\* The session and job life cycle: uploads, confirms, the worker, the clock,
\* the sweep and the status route.
Next ==
    \/ \E rows \in SeqsUpTo(RowKinds, MaxRows) : UploadsSoFar < MaxUploads /\ Upload(rows)
    \/ \E sid \in 1..nextId, sel \in Selections, flag \in BOOLEAN :
          ConfirmWithin(MaxConfirms, sid, sel, flag)
    \/ Sweep
    \/ \E j \in DOMAIN tasks : WorkerStart(j)
    \/ \E j \in DOMAIN tasks : WorkerGenerate(j)
    \/ \E j \in DOMAIN tasks : WorkerFinish(j)
    \/ \E j \in DOMAIN tasks, e \in ErrTexts : JobFault(j, e)
    \/ \E id \in 1..nextId : GetStatus(id)
    \/ Tick

Spec == Init /\ [][Next]_vars

\* Short uploads with a progress stream instead of the status route, under
\* the event loop's scheduling: a task or generator that can resume does.
LiveNext ==
    \/ \E rows \in SeqsUpTo(RowKinds, MaxShortRows) : UploadsSoFar < MaxUploads /\ Upload(rows)
    \/ \E sid \in 1..nextId, sel \in SeqsUpTo(0..MaxShortRows, 1), flag \in BOOLEAN :
          ConfirmWithin(MaxConfirms, sid, sel, flag)
    \/ Sweep
    \/ \E j \in DOMAIN tasks : WorkerStart(j)
    \/ \E j \in DOMAIN tasks : WorkerGenerate(j)
    \/ \E j \in DOMAIN tasks : WorkerFinish(j)
    \/ \E j \in DOMAIN tasks, e \in ErrTexts : JobFault(j, e)
    \/ \E r \in 1..MaxStreams, id \in 1..nextId : StreamOpen(r, id)
    \/ \E r \in 1..MaxStreams : StreamNext(r)
    \/ Tick

LiveSpec ==
    /\ Init
    /\ [][LiveNext]_vars
    /\ \A j \in 1..(MaxUploads + MaxConfirms) : WF_vars(Worker(j))
    /\ \A r \in 1..MaxStreams : WF_vars(StreamNext(r))

\* The transmission step: jobs against either listener, and the send route.
TransmitNext ==
    \/ \E rows \in SeqsUpTo(RowKinds, MaxRows) : UploadsSoFar < MaxUploads /\ Upload(rows)
    \/ \E sid \in 1..nextId, sel \in Selections, flag \in BOOLEAN :
          ConfirmWithin(MaxConfirms, sid, sel, flag)
    \/ \E j \in DOMAIN tasks : WorkerStart(j)
    \/ \E j \in DOMAIN tasks : WorkerGenerate(j)
    \/ \E j \in DOMAIN tasks : WorkerFinish(j)
    \/ \E j \in DOMAIN tasks, e \in ErrTexts : JobFault(j, e)
    \/ ApiSend

TransmitInit == \E mode \in MirthModes : Start(mode)

TransmitSpec == TransmitInit /\ [][TransmitNext]_vars

\* Several jobs at once, over short uploads.
ConcNext ==
    \/ \E rows \in SeqsUpTo(RowKinds, MaxShortRows) : UploadsSoFar < MaxUploads /\ Upload(rows)
    \/ \E sid \in 1..nextId, sel \in SeqsUpTo(0..MaxShortRows, 1), flag \in BOOLEAN :
          ConfirmWithin(MaxConcJobs, sid, sel, flag)
    \/ \E j \in DOMAIN tasks : WorkerStart(j)
    \/ \E j \in DOMAIN tasks : WorkerGenerate(j)
    \/ \E j \in DOMAIN tasks : WorkerFinish(j)
    \/ \E j \in DOMAIN tasks, e \in ErrTexts : JobFault(j, e)

ConcSpec == Init /\ [][ConcNext]_vars

\* The MLLP client against a listener of any behaviour, called by the send
\* route and by the sending loop of the legacy job.
MllpNext ==
    \/ \E n \in 1..MaxSends : LegacyStep5Begin(n)
    \/ \E caller \in {"api", "job"}, hl7_message \in SeqsUpTo(MsgChars, MaxMsgLen) :
          SendBegin(caller, hl7_message)
    \/ \E ok \in BOOLEAN : SockCreate(ok)
    \/ \E res \in {"ok", "refused", "timeout", "error"} : SockConnect(res)
    \/ \E res \in {"ok", "timeout", "error"}, sent \in {0, 1} : SockSendAll(res, sent)
    \/ \E bytes \in Responses : SockRecv(bytes)
    \/ \E res \in {"timeout", "error"} : SockRecvFails(res)
    \/ SockClose
    \/ SendReturn
    \/ LegacyStep5End

MllpSpec == Init /\ [][MllpNext]_vars

\* One batch handed to _handle_csv_upload.
BatchNext ==
    \/ \E n \in 0..MaxPatients : CsvBegin(n)
    \/ \E ack_status \in AckStatuses \cup {"raise"} : CsvRecord(ack_status)
    \/ CsvReturn
    \/ CsvFault

BatchSpec == Init /\ [][BatchNext]_vars

\* One confirmed preview handed to process_patients_async.
UiNext ==
    \/ \E n \in 0..MaxUiPatients : UiConfirm(n)
    \/ \E outcome \in UiOutcomes : UiRecord(outcome)
    \/ UiReturn

UiSpec == Init /\ [][UiNext]_vars

\* One record of a confirmed selection through the generation step.
GenNext ==
    \E patient \in PatientRecords, trigger_event \in TriggerEvents, via \in Generators :
        GenRecord(patient, trigger_event, via)

GenSpec == Init /\ [][GenNext]_vars

\* The columns of one file mapped, and mapped once more.
MapNext ==
    \/ \E column_names \in SeqsUpTo(ColumnNames, MaxCols), use_llm \in BOOLEAN :
          \E llm \in {NoReply} \cup LlmReplies(column_names) :
              MapColumns(column_names, use_llm, llm)
    \/ \E raises \in BOOLEAN : MapAgain(raises)

MapSpec == Init /\ [][MapNext]_vars

\* Uploads in detail: one file parsed for its preview, or one record given
\* to the validator, at any time of the clock.
PreviewNext ==
    \/ \E rows \in SeqsUpTo(Rows, MaxPreviewRows) :
          \E faults \in SUBSET (1..Len(rows)) : PreviewUpload(rows, faults)
    \/ \E patient \in ValidationInputs : Validate(patient)
    \/ \E rows \in SeqsUpTo(DictRows, MaxPreviewRows) : parse_csv(rows)
    \/ Tick

PreviewSpec == Init /\ [][PreviewNext]_vars

\* Messages built one after another by the two builders, as time passes.
BuildNext ==
    \/ \E mrn \in BuilderMrns, u \in Uuid4Values : FallbackBuild(mrn, u)
    \/ \E mrn \in BuilderMrns : create_patient_message(mrn)
    \/ Tick

BuildSpec == Init /\ [][BuildNext]_vars

\* One column name through the fuzzy chain.
KeywordNext ==
    \E column \in KeywordColumns : MapColumns(<<column>>, FALSE, NoReply)

KeywordSpec == Init /\ [][KeywordNext]_vars

\* One job and its readers: the status route, the results route and a
\* progress stream, in any interleaving with the worker.
ReadNext ==
    \/ \E rows \in SeqsUpTo(RowKinds, MaxRows) : UploadsSoFar < MaxUploads /\ Upload(rows)
    \/ \E sid \in 1..nextId, sel \in Selections, flag \in BOOLEAN :
          ConfirmWithin(MaxConfirms, sid, sel, flag)
    \/ \E j \in DOMAIN tasks : WorkerStart(j)
    \/ \E j \in DOMAIN tasks : WorkerGenerate(j)
    \/ \E j \in DOMAIN tasks : WorkerFinish(j)
    \/ \E j \in DOMAIN tasks, e \in ErrTexts : JobFault(j, e)
    \/ \E id \in 1..nextId : GetStatus(id)
    \/ \E id \in 1..nextId : GetResults(id)
    \/ \E r \in 1..MaxStreams, id \in 1..nextId : StreamOpen(r, id)
    \/ \E r \in 1..MaxStreams : StreamNext(r)

ReadSpec == Init /\ [][ReadNext]_vars

\* ------------------------------------------------------------------ claims
StatusRank(status) ==
    IF status = "pending" THEN 0 ELSE IF status = "processing" THEN 1 ELSE 2

Terminal(status) == status \in {"completed", "error"}

Messages(job) == Get(job, "generated_messages", <<>>)

\* Every key the store may hold in any of the specifications
AllIds == 1..(MaxUploads + MaxConfirms + MaxConcJobs)

\* An id that was used as a key and is no longer stored never comes back.
NoResurrection ==
    \A id \in 1..(nextId - 1) :
        id \notin DOMAIN upload_sessions => id \notin DOMAIN upload_sessions'

\* C1: across every step (upload, confirm, worker step, sweep, status poll,
\* clock) the status of a stored entry only moves forward: pending, then
\* processing, then a terminal status; a terminal status never changes, a
\* processing entry never shows pending again, and a removed entry never
\* reappears.
C1_StatusMovesForward ==
    [][/\ \A id \in DOMAIN upload_sessions :
            id \in DOMAIN upload_sessions' =>
              LET old == upload_sessions[id].status
                  new == upload_sessions'[id].status
              IN  /\ StatusRank(new) >= StatusRank(old)
                  /\ StatusRank(old) = 2 => new = old
                  /\ IsSession(upload_sessions'[id]) = IsSession(upload_sessions[id])
       /\ NoResurrection]_vars

\* C1 witness: a job that reached completed is polled after its session was
\* removed.
C1_Witness ==
    /\ response.op = "status"
    /\ response.code = 200
    /\ response.status = "completed"
    /\ \E j \in JobIds : upload_sessions[j].session_id \notin DOMAIN upload_sessions

\* C2: a confirm for a stored session with now > expires_at answers 410
\* (expired), creates no job and no task and removes the session; a confirm
\* for an id that is not stored answers 404 and changes nothing; and a removed
\* id is never stored again, so every later confirm for it answers 404.
C2_ExpiredConfirmRejected ==
    [][/\ response'.op = "confirm" =>
            LET sid == response'.session_id
            IN  /\ (sid \in SessionIds /\ now > upload_sessions[sid].expires_at) =>
                      /\ response'.code = 410
                      /\ sid \notin DOMAIN upload_sessions'
                      /\ JobIds' = JobIds
                      /\ tasks' = tasks
                /\ sid \notin DOMAIN upload_sessions =>
                      /\ response'.code = 404
                      /\ upload_sessions' = upload_sessions
                      /\ tasks' = tasks
       /\ NoResurrection]_vars

\* C2 witness: the state right after an expired confirm: 410 was answered and
\* the session is gone.
C2_Witness ==
    /\ response.op = "confirm"
    /\ response.code = 410
    /\ response.session_id \notin DOMAIN upload_sessions
    /\ ConfirmCode(response.session_id, <<>>) = 404

\* C3 (as claimed): right after a successful confirm the confirmed session's
\* own status is processing.
C3_ConfirmMovesSessionToProcessing ==
    (response.op = "confirm" /\ response.code = 200) =>
        upload_sessions[response.session_id].status = "processing"

\* C4: one pass of the sweep removes exactly the stored sessions with
\* now > expires_at and leaves every other entry and every task as it was; a
\* job whose session is gone while it is processing still reaches a terminal
\* status, and a job entry is never removed from the store.
C4_SweepRemovesExactlyExpired ==
    /\ [][Sweep =>
            /\ \A id \in DOMAIN upload_sessions :
                 (id \in DOMAIN upload_sessions') <=>
                    ~(IsSession(upload_sessions[id])
                      /\ now > upload_sessions[id].expires_at)
            /\ \A id \in DOMAIN upload_sessions' :
                 upload_sessions'[id] = upload_sessions[id]
            /\ tasks' = tasks]_vars
    /\ [][\A j \in JobIds : j \in JobIds']_vars
    /\ \A j \in AllIds :
         (/\ j \in JobIds
          /\ upload_sessions[j].status = "processing"
          /\ upload_sessions[j].session_id \notin DOMAIN upload_sessions)
         ~> (j \in JobIds /\ Terminal(upload_sessions[j].status))

\* C4 witness: a job that has started is still processing although its
\* session has been removed.
C4_Witness ==
    \E j \in JobIds :
        /\ upload_sessions[j].status = "processing"
        /\ upload_sessions[j].current_step >= 1
        /\ upload_sessions[j].session_id \notin DOMAIN upload_sessions

\* C5: every job eventually leaves processing (completed or error), and a
\* progress stream attached to a job eventually ends; a stream that has ended
\* has sent exactly one final event, sent it only once the status had left
\* processing, and sends nothing afterwards.
C5_JobAndStreamTerminate ==
    /\ \A j \in AllIds :
         (j \in JobIds /\ upload_sessions[j].status = "processing")
         ~> (j \in JobIds /\ Terminal(upload_sessions[j].status))
    /\ \A r \in 1..MaxStreams :
         (r \in DOMAIN streams /\ streams[r].upload_id \in JobIds)
         ~> (r \in DOMAIN streams /\ streams[r].pc = "ended")
    /\ [](\A r \in DOMAIN streams :
            /\ Len(streams[r].final) = (IF streams[r].pc = "ended" THEN 1 ELSE 0)
            /\ (streams[r].pc = "ended" /\ streams[r].upload_id \in JobIds) =>
                  /\ upload_sessions[streams[r].upload_id].status # "processing"
                  /\ streams[r].final[1].status
                        = upload_sessions[streams[r].upload_id].status)
    /\ [][\A r \in DOMAIN streams :
            streams[r].pc = "ended" => streams'[r] = streams[r]]_vars

\* C5 witness: a stream that sent a progress event while the job was
\* processing has ended with the final event of the completed job.
C5_Witness ==
    \E r \in DOMAIN streams :
        /\ streams[r].pc = "ended"
        /\ streams[r].events = 1
        /\ streams[r].final[1].status = "completed"

CountFailedSends(messages) ==
    Cardinality({k \in 1..Len(messages) :
                    Has(messages[k], "mirth_sent") /\ ~messages[k].mirth_sent})

HandedToClient(j, k) ==
    \E c \in 1..Len(mllp_calls) :
        /\ mllp_calls[c].caller = "job"
        /\ mllp_calls[c].job = j
        /\ mllp_calls[c].message = k

\* C8 (as claimed): in a completed job a message was handed to the MLLP
\* client if and only if transmission is enabled and its generation outcome
\* is success; with transmission disabled both send counts are 0.
C8_SentIffEnabledAndGenerated ==
    \A j \in JobIds :
        LET job == upload_sessions[j]
        IN  job.status = "completed" =>
              /\ \A k \in 1..Len(Messages(job)) :
                    HandedToClient(j, k) <=>
                        (job.send_to_mirth /\ Messages(job)[k].status = "success")
              /\ ~job.send_to_mirth =>
                    (job.mirth_successful = 0 /\ job.mirth_failed = 0)

StoredIndices(sid) ==
    {upload_sessions[sid].parsed_records[i].index :
        i \in 1..Len(upload_sessions[sid].parsed_records)}

IndicesOf(records) == [i \in 1..Len(records) |-> records[i].index]

\* C9 (as claimed): the job created by a confirm with a non-empty selection
\* of distinct indices takes its records in the order in which
\* selected_indices lists them.
C9_ProcessedInCallerOrder ==
    [][(response'.op = "confirm" /\ response'.code = 200) =>
          \A sel \in Selections, flag \in BOOLEAN :
              (sel # <<>> /\ Cardinality(Range(sel)) = Len(sel) /\ Confirm(response'.session_id, sel, flag)) =>
                  IndicesOf(upload_sessions'[response'.upload_id].selected_records)
                    = SelectSeq(sel, LAMBDA i : i \in StoredIndices(response'.session_id))
      ]_vars

\* C9 (amended): a job takes its records in the order in which the session
\* stores them (ascending row index, each once), whatever the order of
\* selected_indices, and records its outcomes in that order: the k-th outcome
\* is that of the k-th selected record.
C9_ProcessedInStoredOrder ==
    /\ [](\A j \in JobIds :
            LET recs == upload_sessions[j].selected_records
                msgs == Messages(upload_sessions[j])
            IN  /\ \A a, b \in 1..Len(recs) : a < b => recs[a].index < recs[b].index
                /\ Len(msgs) <= Len(recs)
                /\ \A k \in 1..Len(msgs) :
                      /\ msgs[k].patient_uuid = recs[k].uuid
                      /\ msgs[k].row_number = recs[k].index + 2)
    /\ [][(response'.op = "confirm" /\ response'.code = 200) =>
            \A sel \in Selections, flag \in BOOLEAN :
                (sel # <<>> /\ Confirm(response'.session_id, sel, flag)) =>
                    Range(IndicesOf(upload_sessions'[response'.upload_id].selected_records))
                      = Range(sel) \cap StoredIndices(response'.session_id)
         ]_vars

\* C9 witness: a job over two records has recorded both outcomes.
C9_Witness ==
    \E j \in JobIds :
        /\ Len(Messages(upload_sessions[j])) = 2
        /\ Messages(upload_sessions[j])[1].row_number = 2
        /\ Messages(upload_sessions[j])[2].row_number = 3
        /\ upload_sessions[j].status = "completed"

EmptyConfirmStep ==
    /\ response'.op = "confirm"
    /\ response'.code = 200
    /\ \E flag \in BOOLEAN : Confirm(response'.session_id, <<>>, flag)

C12_EmptySelectionTakesValidOnly ==
    [][EmptyConfirmStep =>
         \A k \in 1..Len(upload_sessions'[response'.upload_id].selected_records) :
            upload_sessions'[response'.upload_id].selected_records[k].validation_status
               = "valid"]_vars

\* C13 (as claimed): no two jobs exist for the same session and the same
\* selection.
C13_NoTwoJobsForSameSelection ==
    \A j1, j2 \in JobIds :
        (/\ upload_sessions[j1].session_id = upload_sessions[j2].session_id
         /\ upload_sessions[j1].selected_records = upload_sessions[j2].selected_records)
        => j1 = j2

\* The outcomes of a send, by the way the call ended
AckedOutcomes == {"accepted", "rejected", "no_ack"}
TimedOutOutcomes == {"timeout"}
ConnErrorOutcomes == {"refused", "error"}

C15_FreshSocketAlwaysClosed ==
    /\ client.open \subseteq {client.cur.sock} \ {0}
    /\ client.cur.pc \in {"idle", "closed"} => client.open = {}
    /\ client.cur.pc \in {"created", "connected", "sent"} =>
          client.open = {client.cur.sock}
    /\ client.cur.sock # 0 => client.cur.sock \notin Range(client.socks)
    /\ \A a, b \in 1..Len(client.socks) :
          (a # b /\ client.socks[a] # 0) => client.socks[a] # client.socks[b]

\* C15 witness: after an earlier call that had its own socket, a second call
\* ended in a timeout with another socket, and no socket is open.
C15_Witness ==
    /\ client.cur.pc = "closed"
    /\ client.cur.outcome = "timeout"
    /\ client.cur.sock # 0
    /\ Len(client.socks) = 1
    /\ client.socks[1] # 0
    /\ client.open = {}

\* C16: one call makes at most one connection attempt and at most one
\* transmission, and a call that timed out or was refused does nothing more
\* than close and return; the sending loop of a job calls the client once
\* per generated message, so each message has at most one connection attempt
\* and one transmission, and one recorded result.
C16_NoAutomaticRetry ==
    /\ [](/\ client.cur.connects <= 1
          /\ client.cur.transmissions <= 1
          /\ Len(client.loop.log) <= client.loop.n
          /\ client.loop.mirth_successful + client.loop.mirth_failed
                = Len(client.loop.log)
          /\ \A k \in 1..Len(client.loop.log) :
                /\ client.loop.log[k].connects <= 1
                /\ client.loop.log[k].transmissions <= 1)
    /\ [][client.cur.outcome \in {"timeout", "refused"} =>
            /\ client'.cur.pc \in {"classified", "closed", "idle"}
            /\ client'.cur.pc # "idle" =>
                  /\ client'.cur.connects = client.cur.connects
                  /\ client'.cur.transmissions = client.cur.transmissions
                  /\ ~client'.cur.result.success
            /\ client'.calls = client.calls]_vars

\* C16 witness: the loop over two messages has ended; the first message was
\* refused or timed out at its one connection attempt and was not sent again.
C16_Witness ==
    /\ ~client.loop.active
    /\ client.loop.n = 2
    /\ Len(client.loop.log) = 2
    /\ client.loop.log[1].connects = 1
    /\ client.loop.log[1].transmissions = 0
    /\ ~client.loop.log[1].mirth_sent
    /\ client.loop.mirth_failed >= 1

\* The acknowledgment code of an ACK text: the two characters after MSA|
MsaCode(ack) ==
    LET p == CHOOSE i \in 1..(Len(ack) - 3) : SubSeq(ack, i, i + 3) = <<77, 83, 65, 124>>
    IN  SubSeq(ack, p + 4, p + 5)

HasMsa(ack) == Contains(ack, <<77, 83, 65, 124>>)

\* C17 (as claimed): an ACK whose MSA code is AA is reported as accepted, an
\* ACK whose MSA code is AE or AR is reported as rejected, and a timeout is
\* never reported as accepted.
C17_ClassifiedByMsaCode ==
    LET cur == client.cur
        ack == Strip(Decode(cur.response))
    IN  /\ (cur.outcome \in {"accepted", "rejected"} /\ HasMsa(ack)) =>
              /\ MsaCode(ack) = <<65, 65>> => cur.result.success
              /\ MsaCode(ack) \in {<<65, 69>>, <<65, 82>>} => ~cur.result.success
        /\ cur.outcome = "timeout" => ~cur.result.success

\* C18 (as claimed): when recv returned, success is reported if and only if
\* the decoded, stripped payload contains AA or CA; an empty response is
\* reported as a rejection; a rejection returns the decoded text.
C18_SuccessIffAckContainsAAorCA ==
    LET cur == client.cur
        ack == Strip(Decode(cur.response))
    IN  cur.outcome \in AckedOutcomes =>
          /\ cur.result.success <=>
                (Contains(ack, <<65, 65>>) \/ Contains(ack, <<67, 65>>))
          /\ cur.response = <<>> => ~cur.result.success
          /\ cur.response # <<>> => cur.result.ack = ack

Payload(frame) == SubSeq(frame, 2, Len(frame) - 2)

C20_BatchStatusFollowsCounts ==
    /\ batch.pc \in {"idle", "loop", "returned"}
    /\ (batch.pc = "returned") <=> (batch.result.status # "none")
    /\ (batch.pc = "returned" /\ batch.total_count >= 1) =>
          LET r == batch.result
          IN  /\ r.records_affected = batch.total_count
              /\ r.records_succeeded + r.records_failed = r.records_affected
              /\ r.status = (IF r.records_failed = 0 THEN "success"
                             ELSE IF r.records_succeeded = 0 THEN "failed"
                             ELSE "partial_success")
              /\ r.status = UiStatus(r.records_succeeded, r.records_failed)
              /\ (~batch.faulted /\ \A k \in 1..Len(batch.acks) : batch.acks[k] = "AA") =>
                    /\ r.status = "success"
                    /\ r.records_succeeded = batch.total_count
                    /\ r.records_failed = 0

\* C20 witness: a batch of three records, one acknowledged AA, one rejected
\* and one that raised, ended as partial_success.
C20_Witness ==
    /\ batch.pc = "returned"
    /\ batch.acks = <<"AA", "AE", "raise">>
    /\ batch.result.status = "partial_success"
    /\ batch.result.records_succeeded = 1
    /\ batch.result.records_failed = 2

\* C21: every terminal result of a batch carries at most ErrorCap (10) error
\* strings, however many records failed.  process_patients_async returns the
\* whole list, so a run with more failures than that violates it.
C21_ErrorsCapped ==
    operation.pc = "returned" => Len(operation.result.errors) <= ErrorCap

\* send_to_mirth, lines 947-950: the text of the first line that starts with
\* ZPI|, after the bar
ParseZpi(hl7_message) ==
    LET lines == Split(hl7_message, "\n")
        hits == {k \in 1..Len(lines) : StartsWith(lines[k], <<"ZPI", "|">>)}
    IN  IF hits = {} THEN <<>>
        ELSE LET k == CHOOSE h \in hits : \A m \in hits : h <= m
             IN  SubSeq(lines[k], 3, Len(lines[k]))

\* a record as the upload stores it when nothing is wrong with it: one-word
\* names, an ISO date of birth, a medical record number of letters and digits
WellFormed(patient) ==
    /\ patient.firstName = <<"John">>
    /\ patient.lastName = <<"Doe">>
    /\ patient.dateOfBirth = <<"1990", "-", "01", "-", "15">>
    /\ patient.mrn = <<"MRN", "000001">>
    /\ patient.gender \in {<<"Male">>, <<"Female">>, <<"Other">>, <<"Unknown">>}

\* C22: for every record whose required fields are all present (gender among
\* Male, Female, Other, Unknown) and every trigger event, the message of the
\* local builder is classified is_valid = TRUE.  A record with gender Other
\* violates it: its PID-8 is empty.
C22_CompleteRecordsBuildValid ==
    (gen.pc = "generated" /\ gen.via = "local" /\ WellFormed(gen.patient)) =>
        gen.validation.is_valid

\* the critical field a field of the record is written to
CriticalFieldOf ==
    [lastName |-> <<"PID", 5>>, firstName |-> <<"PID", 5>>,
     dateOfBirth |-> <<"PID", 7>>, mrn |-> <<"PID", 3>>, gender |-> <<"PID", 8>>]

\* C23: when a critical field of the record is empty, the message the local
\* builder makes of it is classified is_valid = FALSE and the field's
\* segment-index pair is in missing_fields.  A record with an empty last name
\* violates it: PID-5 is filled with words of the next line of the command.
C23_MissingFieldDetected ==
    (gen.pc = "generated" /\ gen.via = "local") =>
        \A f \in DOMAIN CriticalFieldOf :
            gen.patient[f] = <<>> =>
                /\ ~gen.validation.is_valid
                /\ CriticalFieldOf[f] \in Range(gen.validation.missing_fields)

\* the segments of a message as the MLLP client frames it (line 962)
WireSegments(hl7_message) == Split(Replace(hl7_message, "\n", "\r"), "\r")

\* C24: every message of a job that step 3 passes on for transmission (status
\* success) has exactly one ZPI segment, right after the PID segment, whose
\* value is the record's uuid.  A remote reply without a line that starts
\* with PID| gets no ZPI segment, one with two such lines gets two.
C24_OneZpiAfterPid ==
    (gen.pc = "generated" /\ gen.status = "success") =>
        LET segs == WireSegments(gen.hl7_message)
            zpis == {k \in 1..Len(segs) : StartsWith(segs[k], <<"ZPI", "|">>)}
        IN  /\ Cardinality(zpis) = 1
            /\ \A k \in zpis :
                  /\ k > 1
                  /\ StartsWith(segs[k - 1], <<"PID", "|">>)
                  /\ segs[k] = <<"ZPI", "|">> \o gen.patient.uuid

\* the lines of a message other than the correlation segment of this uuid
OtherLines(hl7_message, patient_uuid) ==
    SelectSeq(Split(hl7_message, "\n"), LAMBDA l : l # <<"ZPI", "|">> \o patient_uuid)

HasLine(hl7_message, prefix) ==
    \E k \in 1..Len(Split(hl7_message, "\n")) :
        StartsWith(Split(hl7_message, "\n")[k], prefix)

RoundTrips ==
    /\ ParseZpi(gen.hl7_message) = gen.patient.uuid
    /\ OtherLines(gen.hl7_message, gen.patient.uuid) = Split(gen.built, "\n")

C26_MappingIsRepeatable ==
    Len(mapper) = 2 =>
        /\ mapper[1].result.mapping = mapper[2].result.mapping
        /\ mapper[1].result.confidence = mapper[2].result.confidence
        /\ mapper[1].result.unmapped = mapper[2].result.unmapped

\* C27: after a call every column of the list is a key of mapping or an
\* element of unmapped, never both and never neither.  The answer of the
\* classifier is taken as it is, so a column it leaves out is in neither.
C27_MappedOrUnmapped ==
    \A i \in 1..Len(mapper) :
        \A col \in Range(mapper[i].column_names) :
            (col \in DOMAIN mapper[i].result.mapping) #
                (col \in Range(mapper[i].result.unmapped))

\* C28: when the classifier call fails at any point, the result is that of
\* the fuzzy chain alone.  Mappings applied before the failure stay in the
\* result.
C28_FailureLeavesFuzzyResult ==
    \A i \in 1..Len(mapper) :
        mapper[i].failed =>
            mapper[i].result = map_columns_with_llm(mapper[i].column_names, FALSE, NoReply).result


\* the required fields a parsed record lacks
MissingFields(record) ==
    {f \in Range(required_fields) : record[f] = <<>>}

\* the entries of validation_errors for a row (numbered as in the file, the
\* header being line 1) whose field names this required field
EntriesFor(index, f) ==
    {k \in 1..Len(preview.validation_errors) :
        /\ preview.validation_errors[k].row = index + 2
        /\ preview.validation_errors[k].field = <<f>>}

\* C29: an upload of n parsable rows answers totalRecords = n, validRecords =
\* the number of rows with every required field, invalidRecords = the number
\* of rows missing one, and validationErrors holds exactly one entry per
\* missing required field, whose field names it; the session stored is
\* pending and expires one hour after the upload.
C29_PreviewCounts ==
    (preview.pc = "uploaded" /\ preview.faults = {}) =>
        LET n == Len(preview.rows)
            lacking == {k \in 1..n : MissingFields(preview.parsed_records[k]) # {}}
        IN  /\ preview.upload_response.total_records = n
            /\ preview.upload_response.valid_records = n - Cardinality(lacking)
            /\ preview.upload_response.invalid_records = Cardinality(lacking)
            /\ \A k \in 1..n : \A f \in MissingFields(preview.parsed_records[k]) :
                    Cardinality(EntriesFor(k - 1, f)) = 1
            /\ Len(preview.validation_errors)
                   = Cardinality({<<k, f>> \in (1..n) \X Range(required_fields) :
                                     f \in MissingFields(preview.parsed_records[k])})
            /\ preview.session.status = "pending"
            /\ preview.session.expires_at = preview.session.uploaded_at + SessionTTL
            /\ preview.upload_response.expires_at = preview.session.expires_at

\* the dates of the inputs written YYYY-MM-DD, and the genders of the inputs
\* that are one of m, f, male, female, other, u, unknown in some case
IsoInputs == {<<"1990", "-", "01", "-", "15">>}
GenderInputs == {<<"Male">>, <<"MALE">>, <<"other">>}

\* C30: the validator answers invalid exactly when one of firstName, lastName,
\* dateOfBirth, gender, mrn is missing; otherwise warning when the date of
\* birth is not YYYY-MM-DD or the gender is not an accepted one, and valid in
\* the remaining cases; an invalid record never becomes a warning.
C30_ValidationStatus ==
    preview.pc = "validated" =>
        LET p == preview.patient
            missing == \E f \in {"firstName", "lastName", "dateOfBirth", "gender", "mrn"} :
                           p[f] = <<>>
            secondary == \/ p.dateOfBirth \notin IsoInputs
                         \/ p.gender \notin GenderInputs
        IN  preview.verdict.status =
                IF missing THEN "invalid" ELSE IF secondary THEN "warning" ELSE "valid"

\* a record lacking its last name whose date of birth is not YYYY-MM-DD has
\* been validated
C30_Witness ==
    /\ preview.pc = "validated"
    /\ preview.patient.lastName = <<>>
    /\ preview.patient.firstName # <<>>
    /\ preview.patient.dateOfBirth = <<"sometime">>
    /\ preview.verdict.status = "invalid"

\* C31: after an upload every stored record's dateOfBirth is empty or has the
\* form YYYY-MM-DD; a date that cannot be parsed leaves the field empty.
C31_DobEmptyOrIso ==
    preview.pc = "uploaded" =>
        \A k \in 1..Len(preview.parsed_records) :
            \/ preview.parsed_records[k].dateOfBirth = <<>>
            \/ preview.parsed_records[k].dateOfBirth \in IsoInputs

\* C32: the message control ids (MSH-10) of any two built messages differ,
\* also when both are built for the same patient or the same MRN.
C32_ControlIdsDiffer ==
    \A i, j \in 1..Len(builder.built) :
        i # j => builder.built[i].message_control_id # builder.built[j].message_control_id

\* the entries of validation_errors for the row at this position of the file
\* (the first row after the header is 1)
EntriesOfRow(k) ==
    {e \in 1..Len(preview.validation_errors) : preview.validation_errors[e].row = k + 1}

\* C33: a row that cannot be parsed is recorded as one validation error for
\* that row and is no record of the result, and every other row is still
\* parsed and kept.
C33_FailedRowRecorded ==
    /\ preview.pc = "uploaded" =>
          \A k \in 1..Len(preview.rows) :
              IF k \in preview.faults
              THEN /\ Cardinality(EntriesOfRow(k)) = 1
                   /\ \A r \in Range(preview.parsed_records) : r.index # k - 1
              ELSE \E r \in Range(preview.parsed_records) : r.index = k - 1
    /\ preview.pc = "service_parsed" =>
          \A k \in 1..Len(preview.rows) :
              /\ parse_patient_row(preview.rows[k], k + 1).kind = "raised" =>
                    /\ Cardinality(EntriesOfRow(k)) = 1
                    /\ \A r \in Range(preview.patients) : r.row_num # k + 1
              /\ parse_patient_row(preview.rows[k], k + 1).kind = "patient" =>
                    \E r \in Range(preview.patients) : r.row_num = k + 1

\* C33 for the upload route alone
C33_UploadRowRecorded ==
    preview.pc = "uploaded" =>
        \A k \in 1..Len(preview.rows) :
            IF k \in preview.faults
            THEN /\ Cardinality(EntriesOfRow(k)) = 1
                 /\ \A r \in Range(preview.parsed_records) : r.index # k - 1
            ELSE \E r \in Range(preview.parsed_records) : r.index = k - 1

\* the number of outcomes a job entry has recorded
OutcomeCount(e) == IF Has(e, "generated_messages") THEN Len(e.generated_messages) ELSE 0

\* C34: in the generation step the rate-limit delay follows every record,
\* whatever its outcome: the worker records at most one outcome between two
\* of its waits.
C34_DelayAfterEveryRecord ==
    [][\A j \in JobIds :
          OutcomeCount(upload_sessions'[j]) <= OutcomeCount(upload_sessions[j]) + 1]_vars

\* the uuids of the records a job entry has recorded an outcome for
OutcomeUuids(e) ==
    IF Has(e, "generated_messages")
    THEN {e.generated_messages[k].patient_uuid : k \in 1..Len(e.generated_messages)}
    ELSE {}

\* C35: an upload only stores a pending session: it creates no job, no task,
\* no outcome and no transmission; a record gets an outcome or a
\* transmission only inside a job that a confirm created from a selection of
\* stored records holding that record.
C35_NothingBeforeConfirm ==
    [][/\ response'.op = "upload" =>
            /\ tasks' = tasks /\ mllp_calls' = mllp_calls
            /\ dashboard_stats' = dashboard_stats
            /\ \A id \in DOMAIN upload_sessions : upload_sessions'[id] = upload_sessions[id]
            /\ \A id \in DOMAIN upload_sessions' \ DOMAIN upload_sessions :
                  /\ IsSession(upload_sessions'[id])
                  /\ upload_sessions'[id].status = "pending"
                  /\ OutcomeUuids(upload_sessions'[id]) = {}
       /\ \A id \in DOMAIN upload_sessions' :
            IF IsSession(upload_sessions'[id])
            THEN OutcomeUuids(upload_sessions'[id]) = {} /\ id \notin DOMAIN tasks'
            ELSE /\ id \in DOMAIN tasks'
                 /\ OutcomeUuids(upload_sessions'[id])
                        \subseteq {r.uuid : r \in Range(tasks'[id].selected_records)}
       /\ \A j \in DOMAIN tasks' \ DOMAIN tasks :
            /\ response'.op = "confirm" /\ response'.code = 200
            /\ response'.session_id \in DOMAIN upload_sessions
            /\ \E sel \in Selections :
                  Range(tasks'[j].selected_records) =
                      {r \in Range(upload_sessions[response'.session_id].parsed_records) :
                          sel = <<>> \/ r.index \in Range(sel)}
       /\ \A c \in Range(mllp_calls') :
            c.caller = "job" =>
                /\ c.job \in DOMAIN tasks'
                /\ c.message \in 1..OutcomeCount(upload_sessions'[c.job])]_vars

\* an upload has stored a session with records, and no job exists
C35_Witness ==
    /\ response.op = "upload"
    /\ response.total_records > 0
    /\ tasks = <<>>
    /\ \E id \in SessionIds : upload_sessions[id].status = "pending"

\* the stop words and the keywords of the keyword stage, as the claim reads
\* them: a field qualifies for a column when a token of the column that is
\* no stop word equals one of its keywords or contains one of at least 3
\* characters
KeywordTokens(column) ==
    {w \in Range(SplitWords(StripText(Lower(column)))) : w \notin noise_words}

Qualifies(column, entry) ==
    \E w \in KeywordTokens(column), keyword \in entry.keywords :
        \/ w = keyword
        \/ Len(keyword) >= 3 /\ Contains(w, keyword)

\* the column is decided by the keyword stage: no variation of the table is
\* equal to it and it is not the bare name
InKeywordStage(column) ==
    /\ \A i \in 1..Len(COLUMN_MAPPINGS) :
          StripText(Lower(column)) \notin COLUMN_MAPPINGS[i].variations
    /\ StripText(Lower(column)) \notin
          {<<"n", "a", "m", "e">>, <<"p", "a", "t", "i", "e", "n", "t", " ", "n", "a", "m", "e">>}

\* C36: in the keyword stage a column is mapped to a field only when that
\* field qualifies, and when several qualify the first of them in the
\* declared order is the one it is mapped to.
C36_KeywordStage ==
    \A c \in 1..Len(mapper) :
        (~mapper[c].use_llm /\ Len(mapper[c].column_names) = 1
         /\ InKeywordStage(mapper[c].column_names[1])) =>
            LET column == mapper[c].column_names[1]
                mapped == IF column \in DOMAIN mapper[c].result.mapping
                          THEN mapper[c].result.mapping[column] ELSE ""
                qualifying == {i \in 1..Len(field_keywords) : Qualifies(column, field_keywords[i])}
            IN  IF qualifying = {} THEN mapped = ""
                ELSE mapped = field_keywords[CHOOSE i \in qualifying :
                                                \A m \in qualifying : i <= m].field

\* what a reader can observe of a job entry: the outcomes are at most
\* total_patients, the two transmission counts together are at most the
\* outcomes with status success, and a completed job with transmission has
\* an outcome per record and a transmission count per success
JobConsistent(e) ==
    LET successes == CountStatus(Get(e, "generated_messages", <<>>), "success")
        sent == Get(e, "mirth_successful", 0) + Get(e, "mirth_failed", 0)
    IN  /\ OutcomeCount(e) <= e.total_patients
        /\ sent <= successes
        /\ (e.status = "completed" /\ e.send_to_mirth) =>
              /\ OutcomeCount(e) = e.total_patients
              /\ sent = successes

\* C37: in every interleaving of the worker with the status, results and
\* stream readers, a read changes no job state, and every state a reader
\* can observe is consistent.
C37_ReadersSeeConsistentJobs ==
    [][/\ (response'.op \in {"status", "results", "stream"} \/ streams' # streams) =>
            /\ upload_sessions' = upload_sessions
            /\ tasks' = tasks
            /\ dashboard_stats' = dashboard_stats
       /\ \A j \in DOMAIN upload_sessions' :
            IsJob(upload_sessions'[j]) => JobConsistent(upload_sessions'[j])
       /\ (response'.op = "results" /\ response'.code = 200) =>
            /\ Len(response'.messages) <= response'.total_patients
            /\ response'.mirth_successful + response'.mirth_failed <= response'.successful]_vars

\* the results route has read a job of two records after its first outcome,
\* while the worker is still running
C37_Witness ==
    /\ response.op = "results"
    /\ response.code = 200
    /\ response.status = "processing"
    /\ response.total_patients = 2
    /\ Len(response.messages) = 1

\* what one job contributes to a process-wide counter
Contribution(e, counter) ==
    CASE counter = "successful_sends" -> Get(e, "mirth_successful", 0)
      [] counter = "failed_sends" -> Get(e, "mirth_failed", 0)
      [] counter = "total_processed" ->
             IF e.status = "completed" THEN e.total_patients ELSE 0

RECURSIVE SumOfJobs(_, _)
SumOfJobs(ids, counter) ==
    IF ids = {} THEN 0
    ELSE LET j == CHOOSE x \in ids : TRUE
         IN  Contribution(upload_sessions[j], counter) + SumOfJobs(ids \ {j}, counter)

\* C38: with several jobs interleaving, once every job is terminal the
\* process-wide counters equal the sums over the jobs: successful_sends and
\* failed_sends of the jobs' transmission counts, total_processed of the
\* selected-record counts of the completed jobs.
C38_StatisticsLoseNoUpdate ==
    (JobIds # {} /\ \A j \in JobIds : Terminal(upload_sessions[j].status)) =>
        \A counter \in {"successful_sends", "failed_sends", "total_processed"} :
            dashboard_stats[counter] = SumOfJobs(JobIds, counter)

\* two jobs have both completed, each with a transmission attempt counted
C38_Witness ==
    /\ Cardinality(JobIds) = 2
    /\ \A j \in JobIds : /\ upload_sessions[j].status = "completed"
                         /\ upload_sessions[j].send_to_mirth
                         /\ Get(upload_sessions[j], "mirth_failed", 0) = 1
    /\ dashboard_stats.failed_sends = 2
    /\ dashboard_stats.total_processed = 2

\* C39: a confirm answered 404 (unknown session) or 400 (the selection
\* matches no stored record) creates no job entry and no task and leaves
\* the store as it was; the 410 answer changes the store only by removing
\* the expired session it names, and creates no task either.
C39_RejectedConfirmChangesNothing ==
    [][response'.op = "confirm" =>
          /\ response'.code \in {404, 400} =>
                /\ upload_sessions' = upload_sessions
                /\ tasks' = tasks
          /\ response'.code = 404 => response'.session_id \notin DOMAIN upload_sessions
          /\ response'.code = 410 =>
                /\ response'.session_id \in DOMAIN upload_sessions
                /\ ConfirmExpired(now, upload_sessions[response'.session_id])
                /\ upload_sessions' = Del(upload_sessions, response'.session_id)
                /\ tasks' = tasks]_vars

\* a confirm was answered 400 for a session that holds records, so its
\* selection was not empty and matched none of them; the session is still
\* stored and no task exists
C39_Witness ==
    /\ response.op = "confirm"
    /\ response.code = 400
    /\ response.session_id \in DOMAIN upload_sessions
    /\ upload_sessions[response.session_id].parsed_records # <<>>
    /\ upload_sessions[response.session_id].status = "pending"
    /\ DOMAIN tasks = {}

\* C40: in every step, a stored job keeps its entry with a current_step
\* that is not lower than before; current_step 4 goes with status
\* completed; the entry of a job whose status is terminal is the same after
\* the step (status, current_step, outcomes, transmission counts,
\* completed_at, error); and a session that stays stored keeps its records.
C40_JobProgressIsMonotone ==
    [][/\ \A j \in JobIds :
            /\ j \in DOMAIN upload_sessions'
            /\ upload_sessions'[j].current_step >= upload_sessions[j].current_step
            /\ Terminal(upload_sessions[j].status) =>
                  upload_sessions'[j] = upload_sessions[j]
       /\ \A j \in DOMAIN upload_sessions' :
            (IsJob(upload_sessions'[j]) /\ upload_sessions'[j].current_step = 4) =>
                upload_sessions'[j].status = "completed"
       /\ \A s \in DOMAIN upload_sessions :
            (IsSession(upload_sessions[s]) /\ s \in DOMAIN upload_sessions') =>
                /\ IsSession(upload_sessions'[s])
                /\ upload_sessions'[s].parsed_records = upload_sessions[s].parsed_records
                /\ upload_sessions'[s].status = upload_sessions[s].status]_vars

\* a job stopped by a fault after it recorded an outcome in step 2, read by
\* the status route while its originating session is still stored
C40_Witness ==
    /\ response.op = "status"
    /\ response.code = 200
    /\ response.status = "error"
    /\ response.current_step = 2
    /\ \E j \in JobIds :
          /\ j = response.upload_id
          /\ OutcomeCount(upload_sessions[j]) >= 1
          /\ upload_sessions[j].session_id \in DOMAIN upload_sessions

====
